---- MODULE Spec2Model ----
(***************************************************************************)
(* Model of the client-side conversation engine of deep-agents-ui:         *)
(*   - SideChannelSync  (src/app/hooks/useChat.ts): sendMessage, the       *)
(*     onThreadId callback, pendingImagesForThread, patchThreadWithImages  *)
(*   - the artifact-metadata merge of patchThreadWithImages                *)
(*   - MessageCorrelator (src/app/components/ChatInterface.tsx):           *)
(*     processedMessages                                                   *)
(*   - InterruptResolver (ChatInterface.tsx): actionRequestsMap and        *)
(*     reviewConfigsMap                                                    *)
(*   - AssistantResolver (src/app/page.tsx): fetchAssistant, the effects,  *)
(*     loadThreadAssistant, handleAssistantChange, onThreadSelect          *)
(*   - ConversationSession (useChat.ts, ChatInterface.tsx): the operations *)
(*     of useChat, handleSubmit with uploadImages, the Turn of sendMessage *)
(*   - the authentication flow (src/app/auth/callback/page.tsx,            *)
(*     SupabaseLoginDialog.tsx): the clients createClient makes            *)
(*                                                                         *)
(* Encodings.  Thread identifiers are 1..MaxThreads and NoThread (0) is    *)
(* the null thread id.  A doc_id is a natural number and 0 encodes a falsy *)
(* doc_id (the empty string or a missing field).  A value that JavaScript  *)
(* may or may not hold as an array is a record [kind, list] with kind in   *)
(* "absent", "other", "list".                                              *)
(***************************************************************************)
EXTENDS Naturals, Sequences, FiniteSets, TLC

VARIABLES
    \* ---- SideChannelSync (useChat.ts)
    threadId,                \* the threadId query state, as last written by setThreadId
    seenThreadId,            \* the threadId captured by the closures of the last render
    pendingImagesForThread,  \* pendingImagesForThread.current
    sends,                   \* the stream.submit calls made by sendMessage, in order
    creating,                \* submits whose thread creation is in flight in the runtime
    timers,                  \* the setTimeout callbacks of Path A that have not fired
    patches,                 \* the calls of patchThreadWithImages, in call order
    metadata,                \* the runtime's thread metadata, per thread
    created,                 \* number of threads that exist in the runtime
    alerts,                  \* number of alert() dialogs raised
    \* ---- the merge of patchThreadWithImages, applied to drawn inputs
    mergeNew,                \* the images argument
    mergeHist,               \* the thread metadata: before, after one patch, after two
    \* ---- MessageCorrelator (ChatInterface.tsx)
    messages,                \* the Turn sequence handed to processedMessages
    interrupt,               \* whether stream.interrupt is set
    pass,                    \* which invocation of the correlator is running
    pos,                     \* number of messages the running pass has processed
    messageMap,              \* the insertion-ordered Map of the running pass
    outputs,                 \* the arrays returned by the finished invocations
    \* ---- InterruptResolver (ChatInterface.tsx)
    interruptPayload,        \* stream.interrupt, with the fields the resolver probes
    actionRequestsMap,       \* what the actionRequestsMap memo produced
    reviewConfigsMap,        \* what the reviewConfigsMap memo produced
    \* ---- AssistantResolver (page.tsx)
    configAssistantId,       \* config.assistantId
    selectedAgentId,         \* the selectedAgentId state
    assistant,               \* the assistant state
    depsAgentId,             \* selectedAgentId as of the last run of the effects
    depsThreadId,            \* threadId as of the last run of the effects
    resolves,                \* the calls of fetchAssistant in flight, in call order
    loads,                   \* the calls of loadThreadAssistant in flight
    selects,                 \* the onThreadSelect calls awaiting assistants.get
    threadAgent,             \* the runtime's assistant id of each thread
    lastResolve,             \* how the fetchAssistant call that ended last ended
    lastWrite,               \* who wrote selectedAgentId last, and what
    discovery,               \* the last thread load that found the thread's agent
    raced,                   \* a thread load and an agent switch were in flight together
    userActions,             \* number of user actions made on the page
    \* ---- ConversationSession (useChat.ts, ChatProvider, handleSubmit)
    runtimeConfig,           \* the runtimeConfig state of ChatProvider
    activeConfig,            \* activeAssistant.config
    uploads,                 \* the uploadImages calls of handleSubmit in flight
    continueConfig,          \* the runtimeConfig held by the continueStream callback
    isLoading,               \* stream.isLoading: a run is in flight
    lastCall,                \* what the last handler call did, in order
    \* ---- the authentication flow (auth/page.tsx, auth/callback/page.tsx)
    savedConfig,             \* the configuration getConfig() returns
    authEnv,                 \* NEXT_PUBLIC_SUPABASE_URL and NEXT_PUBLIC_SUPABASE_ANON_KEY
    authPage,                \* the config, configDialogOpen and error states of AuthPage
    supabase                 \* the client createClient made last

syncVars == <<threadId, seenThreadId, pendingImagesForThread, sends, creating,
              timers, patches, metadata, created, alerts>>
mergeVars == <<mergeNew, mergeHist>>
corrVars == <<messages, interrupt, pass, pos, messageMap, outputs>>
intrVars == <<interruptPayload, actionRequestsMap, reviewConfigsMap>>
asstVars == <<configAssistantId, selectedAgentId, assistant, depsAgentId,
              depsThreadId, resolves, loads, selects, threadAgent, lastResolve,
              lastWrite, discovery, raced, userActions>>
sessVars == <<runtimeConfig, activeConfig, uploads, continueConfig, isLoading, lastCall>>
pageVars == <<intrVars, asstVars, sessVars>>
authVars == <<savedConfig, authEnv, authPage, supabase>>
vars == <<syncVars, mergeVars, corrVars, pageVars, authVars>>

----------------------------------------------------------------------------
\* Bounds of the model
MaxSends == 2        \* sendMessage calls in one behaviour
MaxImages == 2       \* length of a drawn image list in the merge inputs
MaxDocId == 2        \* doc_ids 0..MaxDocId in the merge inputs (0 is falsy)
MaxTurns == 3        \* length of the Turn sequence handed to the correlator
MaxEntries == 2      \* length of a list field of the interrupt value
MaxFound == 2        \* length of a result of assistants.search
MaxUserActions == 1  \* user actions on the page in one behaviour

NoThread == 0
MaxThreads == MaxSends + 1
Threads == 1..MaxThreads

\* An image reference {doc_id, storage_path}
ImageRef(d, p) == [doc_id |-> d, storage_path |-> p]

\* The reference the upload collaborator returns for the image of the k-th send
UploadedImage(k) == ImageRef(k, k)

AbsentValue == [kind |-> "absent", list |-> <<>>]
ListValue(l) == [kind |-> "list", list |-> l]
EmptyMetadata == [images |-> AbsentValue, owner |-> "none"]

\* A missing or undefined string-valued field
Undefined == "<undefined>"
Falsy(x) == x = "" \/ x = Undefined
\* a || b on strings
OrElse(a, b) == IF Falsy(a) THEN b ELSE a

----------------------------------------------------------------------------
\* The merge of patchThreadWithImages

\* Array.isArray(currentMetadata.images) ? currentMetadata.images : []
ExistingImages(currentMetadata) ==
    IF currentMetadata.images.kind = "list" THEN currentMetadata.images.list ELSE <<>>

\* A list that takes every entry, whether or not its key is already there
MapAppend(m, img) == Append(m, img)

\* Map.prototype.set on an insertion-ordered map held as a list of entries:
\* an existing key keeps its place and takes the new value, a new key is appended
MapSet(m, img) ==
    IF \E i \in 1..Len(m) : m[i].doc_id = img.doc_id
    THEN [i \in 1..Len(m) |-> IF m[i].doc_id = img.doc_id THEN img ELSE m[i]]
    ELSE Append(m, img)

\* A loop over the existing images that also takes those with a falsy doc_id
RECURSIVE AddExistingUnfiltered(_, _)
AddExistingUnfiltered(m, imgs) ==
    IF imgs = <<>> THEN m
    ELSE AddExistingUnfiltered(MapSet(m, Head(imgs)), Tail(imgs))

\* existingImages.forEach(img => { if (img.doc_id) imageMap.set(img.doc_id, img) })
RECURSIVE AddExisting(_, _)
AddExisting(m, imgs) ==
    IF imgs = <<>> THEN m
    ELSE AddExisting(IF Head(imgs).doc_id # 0 THEN MapSet(m, Head(imgs)) ELSE m,
                     Tail(imgs))

\* images.forEach(img => imageMap.set(img.doc_id, img))
RECURSIVE AddNew(_, _)
AddNew(m, imgs) ==
    IF imgs = <<>> THEN m ELSE AddNew(MapSet(m, Head(imgs)), Tail(imgs))

\* mergedImages = Array.from(imageMap.values())
MergedImages(currentMetadata, images) ==
    AddNew(AddExisting(<<>>, ExistingImages(currentMetadata)), images)

\* The body of the PATCH request: { ...currentMetadata, images: mergedImages }
PatchBody(currentMetadata, images) ==
    [currentMetadata EXCEPT !.images = ListValue(MergedImages(currentMetadata, images))]

----------------------------------------------------------------------------
\* SideChannelSync

\* patchThreadWithImages up to its first await: the guard of line 73, the
\* configuration check, and the thread read it issues.  origin records the
\* caller ("flush": onThreadId, "timer": the Path A timeout).
\* env is what the call finds: "ok", "noClient" (client is null) or "noConfig"
\* (getConfig() has no deploymentUrl).
PatchCall(target, images, origin, env) ==
    [thread |-> target, images |-> images, origin |-> origin, body |-> EmptyMetadata,
     pc |-> IF env = "noClient" \/ Len(images) = 0 THEN "skipped"
            ELSE IF env = "noConfig" THEN "noConfig" ELSE "get",
     errors |-> IF env = "noConfig" /\ Len(images) # 0 THEN 1 ELSE 0,
     rejected |-> FALSE]

Envs == {"ok", "noClient", "noConfig"}

\* The ways a patch ends without writing the thread's metadata
FailedPcs == {"skipped", "noConfig", "readFailed", "networkError", "notOk"}

\* An exception thrown inside the try block of patchThreadWithImages
Thrown(p) == [p EXCEPT !.rejected = TRUE]

\* A catch block that logs and rethrows
CatchAndRethrow(p, outcome) ==
    [p EXCEPT !.pc = outcome, !.errors = p.errors + 1]

\* The catch block of patchThreadWithImages: one console.error, no rethrow
CatchPatchError(p, outcome) ==
    [p EXCEPT !.pc = outcome, !.errors = p.errors + 1, !.rejected = FALSE]

\* Path B of sendMessage: pendingImagesForThread.current = imageRefs
PendingAfterSend(pending, imageRefs) == imageRefs

\* A flush that leaves the pending references in place
PendingKept(pending) == pending

\* onThreadId: pendingImagesForThread.current = []
PendingAfterFlush(pending) == <<>>

\* A flush condition that needs two pending references
FlushNeedsTwo(newThreadId, pending) == newThreadId # NoThread /\ Len(pending) > 1

\* onThreadId: the condition under which the pending images are flushed
FlushCondition(newThreadId, pending) == newThreadId # NoThread /\ Len(pending) > 0

InitSync ==
    /\ threadId \in {NoThread, 1}
    /\ seenThreadId = threadId
    /\ pendingImagesForThread = <<>>
    /\ sends = <<>>
    /\ creating = {}
    /\ timers = {}
    /\ patches = <<>>
    /\ metadata = [t \in Threads |-> EmptyMetadata]
    /\ created = 1
    /\ alerts = 0

IdleMerge ==
    /\ mergeNew = <<>>
    /\ mergeHist = <<>>

IdleCorr ==
    /\ messages = <<>>
    /\ interrupt = FALSE
    /\ pass = 0
    /\ pos = 0
    /\ messageMap = <<>>
    /\ outputs = <<>>

\* No interrupt, and a memo that has not run
NoInterrupt ==
    [present |-> FALSE, value |-> "absent",
     action_requests |-> AbsentValue, review_configs |-> AbsentValue]
Unset == [state |-> "unset", map |-> <<>>]

IdleIntr ==
    /\ interruptPayload = NoInterrupt
    /\ actionRequestsMap = Unset
    /\ reviewConfigsMap = Unset

\* The assistant state before any setAssistant (null)
NoAssistant ==
    [assistant_id |-> Undefined, graph_id |-> Undefined, name |-> Undefined,
     created_by |-> Undefined]
Unmounted == "<unmounted>"
NoResolve ==
    [target |-> Undefined, how |-> "none", log |-> "none", raised |-> FALSE,
     returned |-> <<>>, assistant |-> NoAssistant]
NoWrite == [by |-> "none", value |-> Undefined]
NoDiscovery ==
    [tick |-> 0, origin |-> "none", name |-> Undefined, before |-> Undefined,
     after |-> Undefined, resolutions |-> 0]

IdleAsst ==
    /\ configAssistantId = Undefined
    /\ selectedAgentId = "research"
    /\ assistant = NoAssistant
    /\ depsAgentId = Unmounted
    /\ depsThreadId = NoThread
    /\ resolves = <<>>
    /\ loads = <<>>
    /\ selects = <<>>
    /\ threadAgent = <<>>
    /\ lastResolve = NoResolve
    /\ lastWrite = NoWrite
    /\ discovery = NoDiscovery
    /\ raced = FALSE
    /\ userActions = 0

\* A configurable object; a key that is missing is Undefined or absent
Configurable(model_name, selected_tools, selected_subagents, user_id) ==
    [model_name |-> model_name, selected_tools |-> selected_tools,
     selected_subagents |-> selected_subagents, user_id |-> user_id]
NoConfigurable == Configurable(Undefined, AbsentValue, AbsentValue, Undefined)
NoLimit == 0
\* activeAssistant?.config ?? {}
NoConfig == [recursion_limit |-> NoLimit, configurable |-> NoConfigurable]
\* The initial state of ChatProvider when no initialRuntimeConfig is given
DefaultRuntimeConfig ==
    [model_name |-> "openai:gpt-4o",
     selected_tools |-> ListValue(<<"tavily_search", "think_tool">>),
     selected_subagents |-> ListValue(<<"research-agent">>)]
\* The run-control options of a submit that passes none, <<>> standing for an
\* option that is absent
NoControl == [interruptBefore |-> <<>>, interruptAfter |-> <<>>]
NoCall ==
    [op |-> "none", events |-> <<>>, config |-> NoConfig, text |-> FALSE,
     turn |-> "none", control |-> NoControl, arg |-> Undefined]

IdleSess ==
    /\ runtimeConfig = DefaultRuntimeConfig
    /\ activeConfig = NoConfig
    /\ uploads = {}
    /\ continueConfig = DefaultRuntimeConfig
    /\ isLoading = FALSE
    /\ lastCall = NoCall

IdlePage == IdleIntr /\ IdleAsst /\ IdleSess

\* A configuration, the key held as a sequence of tokens; getConfig() is null
\* when present is FALSE
StandaloneConfig(present, supabaseUrl, supabaseAnonKey, authToken) ==
    [present |-> present, supabaseUrl |-> supabaseUrl,
     supabaseAnonKey |-> supabaseAnonKey, authToken |-> authToken]
NoStandaloneConfig == StandaloneConfig(FALSE, Undefined, <<>>, Undefined)
\* No client was made yet
NoClient == [by |-> "none", supabaseUrl |-> Undefined, supabaseKey |-> <<>>]

\* Nothing is saved and the sign-in page has not loaded
IdleAuth ==
    /\ savedConfig = NoStandaloneConfig
    /\ authEnv = [supabaseUrl |-> Undefined, supabaseAnonKey |-> <<>>]
    /\ authPage = [config |-> NoStandaloneConfig, configDialogOpen |-> FALSE,
                   error |-> "none"]
    /\ supabase = NoClient

\* sendMessage(content, uploadedImages): stream.submit, then Path A or Path B.
\* The runtime creates a thread for a submit made with no thread id.
SendEffect(hasText, hasImage) ==
    /\ Len(sends) < MaxSends
    /\ hasText \/ hasImage
    /\ LET k == Len(sends) + 1
           imageRefs == IF hasImage THEN <<UploadedImage(k)>> ELSE <<>>
       IN  /\ sends' = Append(sends, [images |-> imageRefs, text |-> hasText,
                                      seen |-> seenThreadId, thread |-> seenThreadId])
           /\ creating' = IF seenThreadId = NoThread THEN creating \cup {k} ELSE creating
           /\ IF Len(imageRefs) > 0
              THEN IF seenThreadId # NoThread
                   THEN /\ timers' = timers \cup {[send |-> k, thread |-> seenThreadId,
                                                   images |-> imageRefs]}
                        /\ UNCHANGED pendingImagesForThread
                   ELSE /\ pendingImagesForThread' =
                               PendingAfterSend(pendingImagesForThread, imageRefs)
                        /\ UNCHANGED timers
              ELSE UNCHANGED <<timers, pendingImagesForThread>>
    /\ UNCHANGED <<threadId, seenThreadId, patches, metadata, created>>

\* handleSubmit with no image, or after uploadImages resolved
SendMessage(hasText, hasImage) ==
    /\ SendEffect(hasText, hasImage)
    /\ UNCHANGED <<alerts, mergeVars, authVars, corrVars, pageVars>>

\* handleSubmit when uploadImages rejects: alert, then the text-only send
UploadFailed(hasText) ==
    /\ Len(sends) + alerts < MaxSends
    /\ alerts' = alerts + 1
    /\ UNCHANGED <<mergeVars, authVars, corrVars, pageVars>>
    /\ IF hasText
       THEN SendEffect(TRUE, FALSE)
       ELSE UNCHANGED <<threadId, seenThreadId, pendingImagesForThread, sends,
                        creating, timers, patches, metadata, created>>

\* The runtime created the thread of submit s and calls onThreadId(newThreadId)
OnThreadId(s, env) ==
    /\ s \in creating
    /\ LET newThreadId == created + 1
       IN  /\ created' = newThreadId
           /\ creating' = creating \ {s}
           /\ sends' = [sends EXCEPT ![s].thread = newThreadId]
           /\ threadId' = newThreadId
           /\ IF FlushCondition(newThreadId, pendingImagesForThread)
              THEN /\ patches' = Append(patches,
                          PatchCall(newThreadId, pendingImagesForThread, "flush", env))
                   /\ pendingImagesForThread' = PendingAfterFlush(pendingImagesForThread)
              ELSE UNCHANGED <<patches, pendingImagesForThread>>
    /\ UNCHANGED <<seenThreadId, timers, metadata, alerts,
                   mergeVars, authVars, corrVars, pageVars>>

\* The runtime failed to create the thread of submit s: onError, no onThreadId
CreateFailed(s) ==
    /\ s \in creating
    /\ creating' = creating \ {s}
    /\ UNCHANGED <<threadId, seenThreadId, pendingImagesForThread, sends, timers,
                   patches, metadata, created, alerts,
                   mergeVars, authVars, corrVars, pageVars>>

\* A render: the callbacks are rebuilt with the current threadId
Render ==
    /\ seenThreadId # threadId
    /\ seenThreadId' = threadId
    /\ UNCHANGED <<threadId, pendingImagesForThread, sends, creating, timers,
                   patches, metadata, created, alerts,
                   mergeVars, authVars, corrVars, pageVars>>

\* The 100 ms timeout of Path A fires: patchThreadWithImages(threadId, imageRefs)
TimerFired(tm, env) ==
    /\ tm \in timers
    /\ timers' = timers \ {tm}
    /\ patches' = Append(patches,
                         PatchCall(tm.thread, tm.images, "timer", env))
    /\ UNCHANGED <<threadId, seenThreadId, pendingImagesForThread, sends, creating,
                   metadata, created, alerts,
                   mergeVars, authVars, corrVars, pageVars>>

\* client.threads.get resolved: merge, and issue the PATCH request
ThreadRead(i) ==
    /\ i \in 1..Len(patches)
    /\ patches[i].pc = "get"
    /\ patches' = [patches EXCEPT
                     ![i].pc = "patch",
                     ![i].body = PatchBody(metadata[patches[i].thread], patches[i].images)]
    /\ UNCHANGED <<threadId, seenThreadId, pendingImagesForThread, sends, creating,
                   timers, metadata, created, alerts,
                   mergeVars, authVars, corrVars, pageVars>>

\* client.threads.get rejected
ThreadReadFailed(i) ==
    /\ i \in 1..Len(patches)
    /\ patches[i].pc = "get"
    /\ patches' = [patches EXCEPT ![i] = CatchPatchError(Thrown(patches[i]), "readFailed")]
    /\ UNCHANGED <<threadId, seenThreadId, pendingImagesForThread, sends, creating,
                   timers, metadata, created, alerts,
                   mergeVars, authVars, corrVars, pageVars>>

\* The PATCH request succeeded: the runtime replaces the thread's metadata
PatchWritten(i) ==
    /\ i \in 1..Len(patches)
    /\ patches[i].pc = "patch"
    /\ metadata' = [metadata EXCEPT ![patches[i].thread] = patches[i].body]
    /\ patches' = [patches EXCEPT ![i].pc = "ok"]
    /\ UNCHANGED <<threadId, seenThreadId, pendingImagesForThread, sends, creating,
                   timers, created, alerts,
                   mergeVars, authVars, corrVars, pageVars>>

\* fetch rejected: the .catch handler logs and rethrows into the catch block
PatchNetworkError(i) ==
    /\ i \in 1..Len(patches)
    /\ patches[i].pc = "patch"
    /\ patches' = [patches EXCEPT
                     ![i] = CatchPatchError(Thrown([patches[i] EXCEPT !.errors = @ + 1]),
                                            "networkError")]
    /\ UNCHANGED <<threadId, seenThreadId, pendingImagesForThread, sends, creating,
                   timers, metadata, created, alerts,
                   mergeVars, authVars, corrVars, pageVars>>

\* The PATCH response is not ok: logged
PatchNotOk(i) ==
    /\ i \in 1..Len(patches)
    /\ patches[i].pc = "patch"
    /\ patches' = [patches EXCEPT ![i].pc = "notOk", ![i].errors = @ + 1]
    /\ UNCHANGED <<threadId, seenThreadId, pendingImagesForThread, sends, creating,
                   timers, metadata, created, alerts,
                   mergeVars, authVars, corrVars, pageVars>>

Init == InitSync /\ IdleMerge /\ IdleAuth /\ IdleCorr /\ IdlePage

NextSync ==
    \/ \E hasText \in BOOLEAN, hasImage \in BOOLEAN : SendMessage(hasText, hasImage)
    \/ \E hasText \in BOOLEAN : UploadFailed(hasText)
    \/ \E s \in 1..MaxSends, env \in Envs : OnThreadId(s, env)
    \/ \E s \in 1..MaxSends : CreateFailed(s)
    \/ Render
    \/ \E tm \in timers, env \in Envs : TimerFired(tm, env)
    \/ \E i \in 1..MaxSends : ThreadRead(i)
    \/ \E i \in 1..MaxSends : ThreadReadFailed(i)
    \/ \E i \in 1..MaxSends : PatchWritten(i)
    \/ \E i \in 1..MaxSends : PatchNetworkError(i)
    \/ \E i \in 1..MaxSends : PatchNotOk(i)

Next == NextSync

Spec == Init /\ [][Next]_vars

----------------------------------------------------------------------------
\* Vocabulary of the SideChannelSync claims

InList(x, l) == \E i \in 1..Len(l) : l[i] = x
ImageSends == {s \in 1..Len(sends) : sends[s].images # <<>>}
\* The sends that recorded their references as pending (Path B)
PendingSends == {s \in ImageSends : sends[s].seen = NoThread}
FlushPatches == {i \in 1..Len(patches) : patches[i].origin = "flush"}
MetaImages(t) == ExistingImages(metadata[t])
\* An assignment event (onThreadId) happens in this step
Assigned == created' = created + 1
\* A patch is dispatched by the flush of onThreadId in this step
FlushDispatched ==
    /\ Len(patches') = Len(patches) + 1
    /\ patches'[Len(patches')].origin = "flush"

\* C1: when the patches of two sends to the same thread have both completed
\* successfully, the thread's metadata holds the artifacts of both.
C1_ConcurrentPatchesKeepBoth ==
    \A i, j \in 1..Len(patches) :
        (/\ i # j
         /\ patches[i].pc = "ok"
         /\ patches[j].pc = "ok"
         /\ patches[i].thread = patches[j].thread)
        => \A img \in {patches[i].images[1], patches[j].images[1]} :
               InList(img, MetaImages(patches[i].thread))

\* C2: when one send has recorded one artifact as pending and the runtime then
\* assigns a thread identifier, that step issues one patch, for the assigned
\* thread and with that artifact, and empties the pending set; the artifact is
\* never passed to a second flush.
C2_FlushStep ==
    \A s \in PendingSends :
        (/\ PendingSends = {s}
         /\ pendingImagesForThread = sends[s].images
         /\ Assigned)
        => /\ Len(patches') = Len(patches) + 1
           /\ patches'[Len(patches')].origin = "flush"
           /\ patches'[Len(patches')].thread = threadId'
           /\ patches'[Len(patches')].thread = created'
           /\ patches'[Len(patches')].images = sends[s].images
           /\ pendingImagesForThread' = <<>>
C2_FlushedOnce ==
    \A s \in PendingSends :
        Cardinality({i \in FlushPatches : InList(sends[s].images[1], patches[i].images)}) <= 1
C2_PendingSendFlushedOnAssignment == [][C2_FlushStep]_vars /\ []C2_FlushedOnce

\* C2 witness: the one pending send's artifact went out in the one flush patch
C2_Witness ==
    /\ Cardinality(PendingSends) = 1
    /\ Cardinality(FlushPatches) = 1
    /\ \A s \in PendingSends : \A i \in FlushPatches :
          /\ patches[i].images = sends[s].images
          /\ patches[i].thread = threadId
    /\ pendingImagesForThread = <<>>

\* C3: no artifact reference recorded as pending is lost before the flush: the
\* artifact of every send made with no thread identifier is still pending or
\* has been passed to the patch operation by a flush.
C3_NoPendingReferenceLost ==
    \A s \in PendingSends :
        \/ InList(sends[s].images[1], pendingImagesForThread)
        \/ \E i \in FlushPatches : InList(sends[s].images[1], patches[i].images)

\* C4: a flush is dispatched only in a step that observes a thread-identifier
\* assignment, that step dispatches one patch carrying the pending references
\* and empties the pending set, and no later assignment dispatches a patch for
\* the same references (at most one flush per assignment event).
C4_FlushStep ==
    FlushDispatched =>
        /\ Assigned
        /\ patches' = Append(patches, patches'[Len(patches')])
        /\ patches'[Len(patches')].images = pendingImagesForThread
        /\ patches'[Len(patches')].thread = created'
        /\ pendingImagesForThread' = <<>>
C4_FlushedReferencesDisjoint ==
    /\ Cardinality(FlushPatches) <= created - 1
    /\ \A i, j \in FlushPatches :
          i # j => ~ \E img \in {patches[i].images[1]} : InList(img, patches[j].images)
C4_FlushAtMostOncePerAssignment == [][C4_FlushStep]_vars /\ []C4_FlushedReferencesDisjoint

\* C4 witness: a second assignment fired while the patch of the first flush
\* was still unresolved, and dispatched nothing
C4_Witness ==
    /\ created = 3
    /\ Cardinality(FlushPatches) = 1
    /\ \A i \in FlushPatches : patches[i].pc = "get" /\ patches[i].thread = 2
    /\ pendingImagesForThread = <<>>

\* Nothing is in flight and the client has observed the current thread id
Quiescent ==
    /\ creating = {}
    /\ timers = {}
    /\ seenThreadId = threadId
    /\ \A i \in 1..Len(patches) : patches[i].pc \notin {"get", "patch"}
\* No thread creation and no patch has failed
NoFailure ==
    /\ \A i \in 1..Len(patches) : patches[i].pc \notin FailedPcs
    /\ \A s \in 1..Len(sends) : s \in creating \/ sends[s].thread # NoThread

\* C5: with no failure, once everything in flight has finished, every artifact
\* of every submitted send is in the persisted metadata of the send's thread.
C5_ArtifactsConverge ==
    (Quiescent /\ NoFailure) =>
        \A s \in ImageSends : InList(sends[s].images[1], MetaImages(sends[s].thread))

\* C8: a patch that fails at the thread read, by a network error on the write
\* or by a non-success response is logged and swallowed: nothing is raised to
\* the caller, the step changes no submission and raises no alert, and no
\* further patch attempt is issued or scheduled (one attempt per send at most).
PatchFailures == {"readFailed", "networkError", "notOk"}
C8_FailedPatchSwallowed ==
    \A i \in 1..Len(patches) :
        patches[i].pc \in PatchFailures => patches[i].errors >= 1 /\ ~patches[i].rejected
C8_OneAttemptPerSend ==
    /\ Len(patches) + Cardinality(timers) <= Cardinality(ImageSends)
    /\ \A s \in ImageSends :
          Cardinality({i \in 1..Len(patches) : InList(sends[s].images[1], patches[i].images)})
              + Cardinality({tm \in timers : tm.send = s}) <= 1
C8_FailureStep ==
    \A i \in 1..Len(patches) :
        (patches[i].pc \notin PatchFailures /\ patches'[i].pc \in PatchFailures)
        => /\ sends' = sends
           /\ creating' = creating
           /\ alerts' = alerts
           /\ timers' = timers
           /\ Len(patches') = Len(patches)
           /\ metadata' = metadata
C8_PatchFailureLoggedAndSwallowed ==
    /\ []C8_FailedPatchSwallowed
    /\ []C8_OneAttemptPerSend
    /\ [][C8_FailureStep]_vars

\* C8 witness: the patch of a submitted send failed on the network write, was
\* logged twice (the .catch handler and the catch block) and nothing followed
C8_Witness ==
    /\ \E i \in 1..Len(patches) :
          /\ patches[i].pc = "networkError"
          /\ patches[i].errors = 2
          /\ ~patches[i].rejected
          /\ \E s \in ImageSends : sends[s].images = patches[i].images
    /\ \E i \in 1..Len(patches) : patches[i].pc = "readFailed"
    /\ alerts = 0
    /\ timers = {}

----------------------------------------------------------------------------
\* The merge applied to drawn inputs: a thread's metadata and an images
\* argument are drawn, and patchThreadWithImages runs to completion on the
\* thread up to twice, each run reading what the run before wrote.

DocIds == 0..MaxDocId
StoragePaths == {1, 2}
ImageRefs == {ImageRef(d, p) : d \in DocIds, p \in StoragePaths}
RECURSIVE ListsUpTo(_, _)
ListsUpTo(S, n) ==
    IF n = 0 THEN {<<>>}
    ELSE LET shorter == ListsUpTo(S, n - 1)
         IN  shorter \cup {Append(l, x) : l \in {m \in shorter : Len(m) = n - 1}, x \in S}
ImageLists == ListsUpTo(ImageRefs, MaxImages)
\* metadata.images: missing, not an array, or an array of image references
ImagesValues ==
    {AbsentValue, [kind |-> "other", list |-> <<>>]} \cup {ListValue(l) : l \in ImageLists}
MetadataValues == {[images |-> v, owner |-> "u1"] : v \in ImagesValues}

IdleSync ==
    /\ threadId = NoThread
    /\ seenThreadId = NoThread
    /\ pendingImagesForThread = <<>>
    /\ sends = <<>>
    /\ creating = {}
    /\ timers = {}
    /\ patches = <<>>
    /\ metadata = [t \in Threads |-> EmptyMetadata]
    /\ created = 1
    /\ alerts = 0

InitMerge ==
    /\ mergeNew \in ImageLists \ {<<>>}
    /\ \E m \in MetadataValues : mergeHist = <<m>>
    /\ IdleSync
    /\ IdleCorr
    /\ IdlePage
    /\ IdleAuth

\* One patchThreadWithImages(thread, mergeNew) with no failure and nothing
\* interleaved: the thread read, the merge, the PATCH
MergePatch ==
    /\ Len(mergeHist) < 3
    /\ mergeHist' = Append(mergeHist, PatchBody(mergeHist[Len(mergeHist)], mergeNew))
    /\ UNCHANGED <<mergeNew, syncVars, corrVars, pageVars, authVars>>

NextMerge == MergePatch

SpecMerge == InitMerge /\ [][NextMerge]_vars

\* Vocabulary of the merge claims
DocIdsOf(l) == {l[i].doc_id : i \in 1..Len(l)}
EntriesOf(l) == {l[i] : i \in 1..Len(l)}
\* The last entry of l with doc_id d
LastWith(l, d) ==
    l[CHOOSE i \in 1..Len(l) :
        /\ l[i].doc_id = d
        /\ \A j \in (i + 1)..Len(l) : l[j].doc_id # d]
NoDuplicateId(l) == \A i, j \in 1..Len(l) : i # j => l[i].doc_id # l[j].doc_id
MergeRead == mergeHist[1]
MergeOld == ExistingImages(mergeHist[1])
MergeOnce == mergeHist[2].images.list
MergeTwice == mergeHist[3].images.list

\* C6 as claimed: the written artifact list contains every new artifact, one
\* entry per identifier (the new one when the identifier is in both lists),
\* every existing entry whose identifier is not among the new ones, and the
\* other metadata keys are those read; a missing or non-list existing list
\* counts as empty.
C6_MergeAsClaimed ==
    Len(mergeHist) >= 2 =>
        /\ mergeHist[2].images.kind = "list"
        /\ \A i \in 1..Len(mergeNew) : InList(mergeNew[i], MergeOnce)
        /\ NoDuplicateId(MergeOnce)
        /\ \A e \in EntriesOf(MergeOnce) :
              e.doc_id \in DocIdsOf(mergeNew) => InList(e, mergeNew)
        /\ \A k \in 1..Len(MergeOld) :
              MergeOld[k].doc_id \notin DocIdsOf(mergeNew) => InList(MergeOld[k], MergeOnce)
        /\ mergeHist[2].owner = MergeRead.owner
        /\ MergeRead.images.kind # "list" => EntriesOf(MergeOnce) \subseteq EntriesOf(mergeNew)

\* C6 amended: the written artifact list holds exactly one entry per
\* identifier; for an identifier among the new artifacts it is the last new
\* entry with that identifier; for a non-empty identifier that only existing
\* entries carry it is the last existing entry with that identifier; existing
\* entries with an empty identifier are dropped; the other metadata keys are
\* those read; a missing or non-list existing list counts as empty.
C6_MergeLastWins ==
    Len(mergeHist) >= 2 =>
        /\ mergeHist[2].images.kind = "list"
        /\ NoDuplicateId(MergeOnce)
        /\ DocIdsOf(MergeOnce) = DocIdsOf(mergeNew) \cup (DocIdsOf(MergeOld) \ {0})
        /\ \A e \in EntriesOf(MergeOnce) :
              IF e.doc_id \in DocIdsOf(mergeNew)
              THEN e = LastWith(mergeNew, e.doc_id)
              ELSE e = LastWith(MergeOld, e.doc_id)
        /\ mergeHist[2].owner = MergeRead.owner
        /\ MergeRead.images.kind # "list" => EntriesOf(MergeOnce) \subseteq EntriesOf(mergeNew)

\* C6 witness: the patch met an existing entry with an empty identifier and
\* an identifier in both lists with different entries, and wrote two entries
C6_Witness ==
    /\ Len(mergeHist) >= 2
    /\ 0 \in DocIdsOf(MergeOld)
    /\ \E d \in DocIdsOf(MergeOld) \cap DocIdsOf(mergeNew) :
          d # 0 /\ LastWith(MergeOld, d) # LastWith(mergeNew, d)
    /\ Len(MergeOnce) = 2

\* C7 as claimed: a second patch with the same new artifacts leaves the
\* metadata as the first patch wrote it, with no identifier twice.
C7_MergeIdempotent ==
    Len(mergeHist) = 3 => mergeHist[3] = mergeHist[2] /\ NoDuplicateId(MergeTwice)

\* C7 amended: a second patch with the same new artifacts leaves the metadata
\* as the first patch wrote it when every new artifact has a non-empty
\* identifier; in every case it holds the same entries (possibly in another
\* order), the same other keys and no identifier twice.
C7_MergeIdempotentWithIds ==
    Len(mergeHist) = 3 =>
        /\ 0 \notin DocIdsOf(mergeNew) => mergeHist[3] = mergeHist[2]
        /\ EntriesOf(MergeTwice) = EntriesOf(MergeOnce)
        /\ Len(MergeTwice) = Len(MergeOnce)
        /\ NoDuplicateId(MergeTwice)
        /\ mergeHist[3].owner = mergeHist[2].owner

\* C7 witness: two patches ran, the first changed the metadata, an existing
\* identifier was overridden, and every new identifier is non-empty
C7_Witness ==
    /\ Len(mergeHist) = 3
    /\ 0 \notin DocIdsOf(mergeNew)
    /\ DocIdsOf(MergeOld) \cap DocIdsOf(mergeNew) # {}
    /\ Len(MergeOnce) > Len(mergeNew)
    /\ mergeHist[2] # mergeHist[1]
    /\ mergeHist[3] = mergeHist[2]

----------------------------------------------------------------------------
\* MessageCorrelator: processedMessages of ChatInterface.tsx
\*
\* Strings stand for JavaScript strings; Undefined stands for a missing field.
\* A text is a sequence of tokens, so that joining texts is concatenation.


\* A tool-call request or a content block, with the fields the code probes
Call(id, fname, name, type, args) ==
    [id |-> id, fname |-> fname, name |-> name, type |-> type,
     fargs |-> Undefined, args |-> args, input |-> Undefined, text |-> <<>>]
TextBlock(text) ==
    [id |-> Undefined, fname |-> Undefined, name |-> Undefined, type |-> "text",
     fargs |-> Undefined, args |-> Undefined, input |-> Undefined, text |-> text]
NoList == [kind |-> "absent", list |-> <<>>]
StringContent(text) == [kind |-> "string", text |-> text, blocks |-> <<>>]
BlockContent(blocks) == [kind |-> "blocks", text |-> <<>>, blocks |-> blocks]

AiMessage(id, provider, toolCalls, content) ==
    [type |-> "ai", id |-> id, provider |-> provider, tool_calls |-> toolCalls,
     content |-> content, tool_call_id |-> Undefined]
HumanMessage(id) ==
    [type |-> "human", id |-> id, provider |-> NoList, tool_calls |-> NoList,
     content |-> StringContent(<<"hi">>), tool_call_id |-> Undefined]
ToolMessage(toolCallId, content) ==
    [type |-> "tool", id |-> "tm", provider |-> NoList, tool_calls |-> NoList,
     content |-> content, tool_call_id |-> toolCallId]

RECURSIVE JoinTexts(_)
JoinTexts(blocks) ==
    IF blocks = <<>> THEN <<>>
    ELSE (IF Head(blocks).type = "text" THEN Head(blocks).text ELSE <<>>)
         \o JoinTexts(Tail(blocks))

\* extractStringFromMessageContent(message): the string content, or the
\* joined texts of the text parts
ExtractStringFromMessageContent(message) ==
    IF message.content.kind = "string" THEN message.content.text
    ELSE JoinTexts(message.content.blocks)

\* The tool-call requests with the normalized list consulted first
ToolCallsNormalizedFirst(message) ==
    IF message.tool_calls.kind = "list"
    THEN SelectSeq(message.tool_calls.list, LAMBDA c : c.name # "")
    ELSE IF message.provider.kind = "list" THEN message.provider.list
    ELSE IF message.content.kind = "blocks"
         THEN SelectSeq(message.content.blocks, LAMBDA b : b.type = "tool_use")
    ELSE <<>>

\* The tool-call requests of an assistant message: additional_kwargs.tool_calls
\* when it is an array, else tool_calls without the calls named "", else the
\* tool_use blocks of an array content
ToolCallsInMessage(message) ==
    IF message.provider.kind = "list" THEN message.provider.list
    ELSE IF message.tool_calls.kind = "list"
         THEN SelectSeq(message.tool_calls.list, LAMBDA c : c.name # "")
    ELSE IF message.content.kind = "blocks"
         THEN SelectSeq(message.content.blocks, LAMBDA b : b.type = "tool_use")
    ELSE <<>>

\* The values `tool-${Math.random()}` can take
RandomIds == {"tool-0.1", "tool-0.2"}

NoResult == [set |-> FALSE, text |-> <<>>]

\* The id of the call as the message gives it, none being synthesized
ToolCallIdAsGiven(toolCall, random) == toolCall.id

\* toolCall.id || `tool-${Math.random()}`, random being the value drawn
ToolCallId(toolCall, random) == OrElse(toolCall.id, random)

\* An element of toolCallsWithStatus that starts pending whatever the interrupt
ToolCallAlwaysPending(toolCall, random, interrupted) ==
    [id |-> OrElse(toolCall.id, random),
     name |-> OrElse(toolCall.fname, OrElse(toolCall.name, OrElse(toolCall.type, "unknown"))),
     args |-> OrElse(toolCall.fargs, OrElse(toolCall.args, OrElse(toolCall.input, "{}"))),
     status |-> "pending",
     result |-> NoResult]

\* One element of toolCallsWithStatus
ToolCallWithStatus(toolCall, random, interrupted) ==
    [id |-> ToolCallId(toolCall, random),
     name |-> OrElse(toolCall.fname, OrElse(toolCall.name, OrElse(toolCall.type, "unknown"))),
     args |-> OrElse(toolCall.fargs, OrElse(toolCall.args, OrElse(toolCall.input, "{}"))),
     status |-> IF interrupted THEN "interrupted" ELSE "pending",
     result |-> NoResult]

\* toolCallsInMessage.map(...), randoms[i] being the i-th draw of Math.random
ToolCallsWithStatus(message, randoms, interrupted) ==
    LET calls == ToolCallsInMessage(message)
    IN  [i \in 1..Len(calls) |-> ToolCallWithStatus(calls[i], randoms[i], interrupted)]

\* messageMap.set(key, value): an existing key keeps its place
MessageMapSet(map, key, value) ==
    LET entry == [key |-> key, message |-> value.message, toolCalls |-> value.toolCalls]
    IN  IF \E i \in 1..Len(map) : map[i].key = key
        THEN [i \in 1..Len(map) |-> IF map[i].key = key THEN entry ELSE map[i]]
        ELSE Append(map, entry)

\* toolCalls.findIndex(tc => tc.id === toolCallId), 0 standing for -1
FindIndex(toolCalls, toolCallId) ==
    IF \E i \in 1..Len(toolCalls) : toolCalls[i].id = toolCallId
    THEN CHOOSE i \in 1..Len(toolCalls) :
            /\ toolCalls[i].id = toolCallId
            /\ \A j \in 1..(i - 1) : toolCalls[j].id # toolCallId
    ELSE 0

\* A tool message that, finding no call with its id, completes the first call
\* of the first record
CompleteOrFirstCall(map, message) ==
    IF \E e \in 1..Len(map) : FindIndex(map[e].toolCalls, message.tool_call_id) # 0
    THEN LET e == CHOOSE e \in 1..Len(map) :
                    /\ FindIndex(map[e].toolCalls, message.tool_call_id) # 0
                    /\ \A d \in 1..(e - 1) :
                          FindIndex(map[d].toolCalls, message.tool_call_id) = 0
             i == FindIndex(map[e].toolCalls, message.tool_call_id)
         IN  [map EXCEPT ![e].toolCalls[i].status = "completed",
                         ![e].toolCalls[i].result =
                             [set |-> TRUE, text |-> ExtractStringFromMessageContent(message)]]
    ELSE IF map # <<>> /\ map[1].toolCalls # <<>>
    THEN [map EXCEPT ![1].toolCalls[1].status = "completed"]
    ELSE map

\* A tool message that completes every call with its id, in every record
CompleteEveryMatch(map, message) ==
    [e \in 1..Len(map) |->
        [map[e] EXCEPT !.toolCalls =
            [i \in 1..Len(map[e].toolCalls) |->
                IF map[e].toolCalls[i].id = message.tool_call_id
                THEN [map[e].toolCalls[i] EXCEPT
                        !.status = "completed",
                        !.result = [set |-> TRUE,
                                    text |-> ExtractStringFromMessageContent(message)]]
                ELSE map[e].toolCalls[i]]]]

\* A tool message that marks the call completed and leaves the result unset
CompleteWithoutResult(map, message) ==
    IF Falsy(message.tool_call_id) THEN map
    ELSE IF \E e \in 1..Len(map) : FindIndex(map[e].toolCalls, message.tool_call_id) # 0
    THEN LET e == CHOOSE e \in 1..Len(map) :
                    /\ FindIndex(map[e].toolCalls, message.tool_call_id) # 0
                    /\ \A d \in 1..(e - 1) :
                          FindIndex(map[d].toolCalls, message.tool_call_id) = 0
             i == FindIndex(map[e].toolCalls, message.tool_call_id)
         IN  [map EXCEPT ![e].toolCalls[i].status = "completed"]
    ELSE map

\* The tool branch: the first record, in map order, that holds a call with the
\* message's tool_call_id gets its first such call completed
CompleteToolCall(map, message) ==
    IF Falsy(message.tool_call_id) THEN map
    ELSE IF \E e \in 1..Len(map) : FindIndex(map[e].toolCalls, message.tool_call_id) # 0
    THEN LET e == CHOOSE e \in 1..Len(map) :
                    /\ FindIndex(map[e].toolCalls, message.tool_call_id) # 0
                    /\ \A d \in 1..(e - 1) :
                          FindIndex(map[d].toolCalls, message.tool_call_id) = 0
             i == FindIndex(map[e].toolCalls, message.tool_call_id)
         IN  [map EXCEPT ![e].toolCalls[i].status = "completed",
                         ![e].toolCalls[i].result =
                             [set |-> TRUE, text |-> ExtractStringFromMessageContent(message)]]
    ELSE map

\* The map's values with showAvatar set on every record
ProcessedArrayAllAvatars(map) ==
    [i \in 1..Len(map) |->
        [message |-> map[i].message, toolCalls |-> map[i].toolCalls,
         showAvatar |-> TRUE]]

\* The array processedMessages returns: the map's values with showAvatar
ProcessedArray(map) ==
    [i \in 1..Len(map) |->
        [message |-> map[i].message, toolCalls |-> map[i].toolCalls,
         showAvatar |-> IF i = 1 THEN TRUE
                        ELSE map[i].message.type # map[i - 1].message.type]]

\* ---- the Turn sequences the correlator is run on
TurnIds == {"m1", "m2"}
SearchCall(id) == Call(id, Undefined, "search", Undefined, "q")
\* The shapes of an assistant Turn: no call, one call with an id, one call
\* without an id, two calls with the same id, a provider-native list beside a
\* normalized list
AiShapes ==
    {[provider |-> NoList, tool_calls |-> NoList],
     [provider |-> NoList, tool_calls |-> ListValue(<<SearchCall("t1")>>)],
     [provider |-> NoList, tool_calls |-> ListValue(<<SearchCall(Undefined)>>)],
     [provider |-> NoList,
      tool_calls |-> ListValue(<<SearchCall("t1"), Call("t1", Undefined, "fetch", Undefined, "u")>>)],
     [provider |-> ListValue(<<Call("t1", "lookup", Undefined, "function", Undefined)>>),
      tool_calls |-> ListValue(<<SearchCall("t2")>>)]}
ToolContents ==
    {StringContent(<<"3 results">>),
     BlockContent(<<TextBlock(<<"3">>), TextBlock(<<"results", "more">>)>>)}
Turns ==
    {HumanMessage(id) : id \in TurnIds}
    \cup {AiMessage(id, sh.provider, sh.tool_calls, StringContent(<<"ok">>)) :
            id \in TurnIds, sh \in AiShapes}
    \cup {ToolMessage("t1", c) : c \in ToolContents}
    \cup {ToolMessage("t2", StringContent(<<"3 results">>)),
          ToolMessage(Undefined, StringContent(<<"3 results">>))}
TurnSequences == ListsUpTo(Turns, MaxTurns)

InitCorr ==
    /\ messages \in TurnSequences
    /\ interrupt \in BOOLEAN
    /\ pass = 1
    /\ pos = 0
    /\ messageMap = <<>>
    /\ outputs = <<>>
    /\ IdleSync
    /\ IdleMerge /\ IdleAuth
    /\ IdlePage

Running == pass \in {1, 2} /\ pos < Len(messages)

\* The forEach callback on an assistant message
ProcessAi ==
    /\ Running
    /\ messages[pos + 1].type = "ai"
    /\ \E randoms \in [1..Len(ToolCallsInMessage(messages[pos + 1])) -> RandomIds] :
          messageMap' = MessageMapSet(messageMap, messages[pos + 1].id,
                            [message |-> messages[pos + 1],
                             toolCalls |-> ToolCallsWithStatus(messages[pos + 1],
                                                                randoms, interrupt)])
    /\ pos' = pos + 1
    /\ UNCHANGED <<messages, interrupt, pass, outputs, syncVars, mergeVars, authVars, pageVars>>

\* The forEach callback on a tool message
ProcessTool ==
    /\ Running
    /\ messages[pos + 1].type = "tool"
    /\ messageMap' = CompleteToolCall(messageMap, messages[pos + 1])
    /\ pos' = pos + 1
    /\ UNCHANGED <<messages, interrupt, pass, outputs, syncVars, mergeVars, authVars, pageVars>>

\* The forEach callback on a human message
ProcessHuman ==
    /\ Running
    /\ messages[pos + 1].type = "human"
    /\ messageMap' = MessageMapSet(messageMap, messages[pos + 1].id,
                                   [message |-> messages[pos + 1], toolCalls |-> <<>>])
    /\ pos' = pos + 1
    /\ UNCHANGED <<messages, interrupt, pass, outputs, syncVars, mergeVars, authVars, pageVars>>

\* The end of the useMemo callback: the array is returned; the next
\* invocation starts from a new Map
ReturnProcessed ==
    /\ pass \in {1, 2}
    /\ pos = Len(messages)
    /\ outputs' = Append(outputs, ProcessedArray(messageMap))
    /\ pass' = pass + 1
    /\ pos' = 0
    /\ messageMap' = <<>>
    /\ UNCHANGED <<messages, interrupt, syncVars, mergeVars, authVars, pageVars>>

NextCorr ==
    \/ ProcessAi
    \/ ProcessTool
    \/ ProcessHuman
    \/ ReturnProcessed

SpecCorr == InitCorr /\ [][NextCorr]_vars

\* Vocabulary of the correlator claims
AiTurns == {i \in 1..Len(messages) : messages[i].type = "ai"}
ToolTurns == {j \in 1..Len(messages) : messages[j].type = "tool"}
RecordTurns == {i \in 1..Len(messages) : messages[i].type \in {"ai", "human"}}
\* The tool-call ids the extraction finds in the assistant Turn i
ExtractedIds(i) ==
    {c.id : c \in EntriesOf(ToolCallsInMessage(messages[i]))} \ {"", Undefined}
\* The output holds, in the record of Turn i, a call with id k that is
\* completed with the text extracted from the tool Turn j
CompletedBy(out, i, j, k) ==
    \E r \in 1..Len(out) :
        /\ out[r].message = messages[i]
        /\ \E c \in 1..Len(out[r].toolCalls) :
              /\ out[r].toolCalls[c].id = k
              /\ out[r].toolCalls[c].status = "completed"
              /\ out[r].toolCalls[c].result =
                     [set |-> TRUE, text |-> ExtractStringFromMessageContent(messages[j])]

\* C9 as claimed: for every tool Turn whose tool_call_id is the id of a call
\* extracted from some assistant Turn, the record of that call in the output
\* is completed with the text extracted from the tool Turn.
C9_CorrelationComplete ==
    Len(outputs) >= 1 =>
        \A j \in ToolTurns, i \in AiTurns :
            messages[j].tool_call_id \in ExtractedIds(i)
            => CompletedBy(outputs[1], i, j, messages[j].tool_call_id)

\* The conditions under which the tool Turn j answers the assistant Turn i:
\* i comes before j, no later human or assistant Turn carries i's Turn
\* identifier, the id is extracted from no other assistant Turn, and j is the
\* last tool Turn with that tool_call_id
Answers(i, j) ==
    /\ i < j
    /\ \A h \in RecordTurns : h > i => messages[h].id # messages[i].id
    /\ \A a \in AiTurns \ {i} : messages[j].tool_call_id \notin ExtractedIds(a)
    /\ \A t \in ToolTurns : t > j => messages[t].tool_call_id # messages[j].tool_call_id

\* C9 amended: the record is completed with the tool Turn's extracted text
\* when the tool Turn comes after the assistant Turn, no later human or
\* assistant Turn reuses the assistant Turn's identifier, the tool-call id is
\* extracted from that assistant Turn only, and no later tool Turn carries the
\* same tool_call_id.
C9_CorrelationCompleteInOrder ==
    Len(outputs) >= 1 =>
        \A j \in ToolTurns, i \in AiTurns :
            (messages[j].tool_call_id \in ExtractedIds(i) /\ Answers(i, j))
            => CompletedBy(outputs[1], i, j, messages[j].tool_call_id)

\* C9 witness: a tool Turn with part-list content answered a call, under an
\* interrupt, after an earlier tool Turn with the same id and another text
C9_Witness ==
    /\ Len(outputs) >= 1
    /\ interrupt
    /\ \E j \in ToolTurns, i \in AiTurns :
          /\ messages[j].tool_call_id \in ExtractedIds(i)
          /\ Answers(i, j)
          /\ messages[j].content.kind = "blocks"
          /\ \E t \in ToolTurns :
                /\ t < j
                /\ messages[t].tool_call_id = messages[j].tool_call_id
                /\ messages[t].content # messages[j].content
          /\ CompletedBy(outputs[1], i, j, messages[j].tool_call_id)

\* C10: two invocations of the correlator on the same Turn sequence and
\* interrupt value return identical records.
C10_Deterministic ==
    Len(outputs) = 2 => outputs[1] = outputs[2]

\* C11: within one correlation pass, a tool call that is completed stays
\* completed with its result in every later step of the pass, also when a
\* later Turn carries the Turn identifier of the owning assistant Turn.
C11_CompletedStep ==
    pass' = pass =>
        \A e \in 1..Len(messageMap) : \A c \in 1..Len(messageMap[e].toolCalls) :
            messageMap[e].toolCalls[c].status = "completed"
            => /\ e <= Len(messageMap')
               /\ messageMap'[e].key = messageMap[e].key
               /\ c <= Len(messageMap'[e].toolCalls)
               /\ messageMap'[e].toolCalls[c].status = "completed"
               /\ messageMap'[e].toolCalls[c].result.set
C11_CompletedNeverRegresses == [][C11_CompletedStep]_vars

\* The human and assistant Turns of the sequence, in delivery order
RecordMessages == SelectSeq(messages, LAMBDA m : m.type \in {"ai", "human"})
\* The Turns of the records of an output, in output order
OutputMessages(out) == [r \in 1..Len(out) |-> out[r].message]

\* C12: the output holds exactly one record per human or assistant Turn, in
\* delivery order, and no record for a tool Turn.
C12_OneRecordPerTurn ==
    Len(outputs) >= 1 => OutputMessages(outputs[1]) = RecordMessages

\* C13: in every output, showAvatar of a record is true exactly when the
\* record is first or its Turn's role differs from the role of the record
\* immediately before it in the output.
C13_SeparatorFlag ==
    \A k \in 1..Len(outputs) : \A r \in 1..Len(outputs[k]) :
        outputs[k][r].showAvatar
        <=> (r = 1 \/ outputs[k][r].message.type # outputs[k][r - 1].message.type)

\* C13 witness: an output of two records of one role, the second not flagged,
\* where the first record's Turn was replaced by a later Turn of another role
C13_Witness ==
    /\ Len(outputs) >= 1
    /\ Len(outputs[1]) = 2
    /\ outputs[1][1].showAvatar
    /\ ~outputs[1][2].showAvatar
    /\ outputs[1][2].message.type = outputs[1][1].message.type
    /\ messages[1].type = "human"
    /\ outputs[1][1].message.type = "ai"

----------------------------------------------------------------------------
\* InterruptResolver: actionRequestsMap and reviewConfigsMap of
\* ChatInterface.tsx
\*
\* A field of interrupt.value is a record [kind, list]: kind "absent" is a
\* missing field, "null" is null, "object" a non-array object, "string" a
\* non-empty string, "list" an array.  An array element is null or an object
\* whose name and actionName may be missing (Undefined).

NullValue == [kind |-> "null", list |-> <<>>]
ObjectValue == [kind |-> "object", list |-> <<>>]
StringValue == [kind |-> "string", list |-> <<>>]
NullEntry == [null |-> TRUE, name |-> Undefined, actionName |-> Undefined]
Entry(name, actionName) == [null |-> FALSE, name |-> name, actionName |-> actionName]

\* interrupt?.value && interrupt.value[field]
InterruptField(intr, field) ==
    IF ~intr.present \/ intr.value # "object" THEN AbsentValue ELSE intr[field]

\* JavaScript truthiness of a field value
Truthy(f) == f.kind \in {"list", "object", "string"}

\* The keys the two memos read
ActionRequestKey(ar) == ar.name
ReviewConfigKeyByName(rc) == rc.name
ReviewConfigKey(rc) == rc.actionName

\* new Map(pairs): a later pair with a key already there replaces the value
\* and keeps the key's place
RECURSIVE NewMap(_, _)
NewMap(map, pairs) ==
    IF pairs = <<>> THEN map
    ELSE LET pair == Head(pairs)
         IN  NewMap(IF \E i \in 1..Len(map) : map[i].key = pair.key
                    THEN [i \in 1..Len(map) |->
                             IF map[i].key = pair.key THEN pair ELSE map[i]]
                    ELSE Append(map, pair),
                    Tail(pairs))

Returned(map) == [state |-> "returned", map |-> map]
Threw == [state |-> "threw", map |-> <<>>]

\* The actionRequestsMap memo: an empty Map for a falsy field; a TypeError
\* when the field has no map method or an element is null
ResolveActionRequests(intr) ==
    LET actionRequests == InterruptField(intr, "action_requests")
    IN  IF ~Truthy(actionRequests) THEN Returned(<<>>)
        ELSE IF actionRequests.kind # "list" THEN Threw
        ELSE IF \E i \in 1..Len(actionRequests.list) : actionRequests.list[i].null
             THEN Threw
        ELSE Returned(NewMap(<<>>,
                 [i \in 1..Len(actionRequests.list) |->
                     [key |-> ActionRequestKey(actionRequests.list[i]),
                      value |-> actionRequests.list[i]]]))

\* The reviewConfigsMap memo
ResolveReviewConfigs(intr) ==
    LET reviewConfigs == InterruptField(intr, "review_configs")
    IN  IF ~Truthy(reviewConfigs) THEN Returned(<<>>)
        ELSE IF reviewConfigs.kind # "list" THEN Threw
        ELSE IF \E i \in 1..Len(reviewConfigs.list) : reviewConfigs.list[i].null
             THEN Threw
        ELSE Returned(NewMap(<<>>,
                 [i \in 1..Len(reviewConfigs.list) |->
                     [key |-> ReviewConfigKey(reviewConfigs.list[i]),
                      value |-> reviewConfigs.list[i]]]))

\* ---- the interrupts the resolver is run on
ActionNames == {"edit", "send"}
Entries ==
    {Entry(n, a) : n \in ActionNames \cup {Undefined}, a \in ActionNames}
    \cup {Entry("edit", Undefined), NullEntry}
FieldValues ==
    {AbsentValue, NullValue, ObjectValue, StringValue}
    \cup {ListValue(l) : l \in ListsUpTo(Entries, MaxEntries)}
\* An interrupt whose value is an object with the two fields
InterruptWith(ar, rc) ==
    [present |-> TRUE, value |-> "object", action_requests |-> ar, review_configs |-> rc]
\* No interrupt, and interrupts whose value is missing or is a string
ValuelessInterrupts ==
    {NoInterrupt}
    \cup {[present |-> TRUE, value |-> v,
           action_requests |-> AbsentValue, review_configs |-> AbsentValue] :
             v \in {"absent", "string"}}

InitIntr ==
    /\ \/ interruptPayload \in ValuelessInterrupts
       \/ \E ar \in FieldValues, rc \in FieldValues :
             interruptPayload = InterruptWith(ar, rc)
    /\ actionRequestsMap = Unset
    /\ reviewConfigsMap = Unset
    /\ IdleSync
    /\ IdleMerge /\ IdleAuth
    /\ IdleCorr
    /\ IdleAsst
    /\ IdleSess

\* The render evaluates the actionRequestsMap memo
ActionRequestsMemo ==
    /\ actionRequestsMap.state = "unset"
    /\ actionRequestsMap' = ResolveActionRequests(interruptPayload)
    /\ UNCHANGED <<interruptPayload, reviewConfigsMap, syncVars, mergeVars, authVars, corrVars,
                   asstVars, sessVars>>

\* The render, not aborted by the first memo, evaluates the reviewConfigsMap memo
ReviewConfigsMemo ==
    /\ actionRequestsMap.state = "returned"
    /\ reviewConfigsMap.state = "unset"
    /\ reviewConfigsMap' = ResolveReviewConfigs(interruptPayload)
    /\ UNCHANGED <<interruptPayload, actionRequestsMap, syncVars, mergeVars, authVars, corrVars,
                   asstVars, sessVars>>

NextIntr ==
    \/ ActionRequestsMemo
    \/ ReviewConfigsMemo

SpecIntr == InitIntr /\ [][NextIntr]_vars

\* Vocabulary of the interrupt claims
NamedList(f, Key(_)) ==
    /\ f.kind = "list"
    /\ \A i \in 1..Len(f.list) : ~f.list[i].null /\ ~Falsy(Key(f.list[i]))
\* The field is missing, or present and not a list of named entries
MissingOrMalformed(f, Key(_)) == ~NamedList(f, Key)
MapKeys(r) == {r.map[i].key : i \in 1..Len(r.map)}
ActionRequestsField == InterruptField(interruptPayload, "action_requests")
ReviewConfigsField == InterruptField(interruptPayload, "review_configs")

\* C14: the resolver never fails, and a map is empty when the interrupt or
\* its value is absent or the map's field is missing or is not a list of
\* named entries.
C14_MalformedGivesEmptyMaps ==
    /\ actionRequestsMap.state # "threw"
    /\ reviewConfigsMap.state # "threw"
    /\ (actionRequestsMap.state = "returned"
        /\ MissingOrMalformed(ActionRequestsField, ActionRequestKey))
       => actionRequestsMap.map = <<>>
    /\ (reviewConfigsMap.state = "returned"
        /\ MissingOrMalformed(ReviewConfigsField, ReviewConfigKey))
       => reviewConfigsMap.map = <<>>

WellFormed ==
    /\ NamedList(ActionRequestsField, ActionRequestKey)
    /\ NamedList(ReviewConfigsField, ReviewConfigKey)

\* C15: for a well-formed interrupt value the action-request map has the
\* names of the action requests as keys, each mapped to a request of the
\* payload with that name, and the review-configuration map has the action
\* names of the review configurations as keys, each mapped to a configuration
\* of the payload with that action name.
C15_MapsKeyedByName ==
    WellFormed =>
        /\ actionRequestsMap.state \in {"unset", "returned"}
        /\ reviewConfigsMap.state \in {"unset", "returned"}
        /\ actionRequestsMap.state = "returned" =>
              /\ MapKeys(actionRequestsMap)
                    = {e.name : e \in EntriesOf(ActionRequestsField.list)}
              /\ Len(actionRequestsMap.map) = Cardinality(MapKeys(actionRequestsMap))
              /\ \A i \in 1..Len(actionRequestsMap.map) :
                    /\ InList(actionRequestsMap.map[i].value, ActionRequestsField.list)
                    /\ actionRequestsMap.map[i].value.name = actionRequestsMap.map[i].key
        /\ reviewConfigsMap.state = "returned" =>
              /\ MapKeys(reviewConfigsMap)
                    = {e.actionName : e \in EntriesOf(ReviewConfigsField.list)}
              /\ Len(reviewConfigsMap.map) = Cardinality(MapKeys(reviewConfigsMap))
              /\ \A i \in 1..Len(reviewConfigsMap.map) :
                    /\ InList(reviewConfigsMap.map[i].value, ReviewConfigsField.list)
                    /\ reviewConfigsMap.map[i].value.actionName = reviewConfigsMap.map[i].key

\* C15 witness: both memos returned on a well-formed value whose two fields
\* name different actions and whose entries carry a name and an action name
\* that differ
C15_Witness ==
    /\ WellFormed
    /\ actionRequestsMap.state = "returned"
    /\ reviewConfigsMap.state = "returned"
    /\ MapKeys(actionRequestsMap) = {"edit", "send"}
    /\ MapKeys(reviewConfigsMap) = {"send"}
    /\ \E i \in 1..Len(reviewConfigsMap.map) : reviewConfigsMap.map[i].value.name = "edit"

----------------------------------------------------------------------------
\* AssistantResolver: fetchAssistant, the two effects, handleAssistantChange
\* and onThreadSelect of page.tsx
\*
\* A descriptor is a record of the fields of an Assistant that the code reads
\* or writes.  The identifiers U1.. are the UUID-shaped ones; every other
\* identifier is a symbolic name.

U1 == "00000000-0000-4000-8000-000000000001"
U2 == "00000000-0000-4000-8000-000000000002"
U3 == "00000000-0000-4000-8000-000000000003"
U4 == "00000000-0000-4000-8000-000000000004"
U5 == "00000000-0000-4000-8000-000000000005"
U9 == "00000000-0000-4000-8000-000000000009"
UuidShaped == {U1, U2, U3, U4, U5, U9}

\* The test of the UUID pattern
IsUUID(id) == id \in UuidShaped

Agent(id, graph, name, createdBy) ==
    [assistant_id |-> id, graph_id |-> graph, name |-> name, created_by |-> createdBy]

\* The agents of the runtime: two system defaults and a user's agent on the
\* graph research, one default on chat, one on another graph; U9 is unknown
Agents ==
    {Agent(U1, "research", "Research", "system"),
     Agent(U2, "chat", "Chat", "system"),
     Agent(U3, "research", "Research B", "system"),
     Agent(U4, "research", "Mine", "user"),
     Agent(U5, "other", "Other", "system")}

\* The graph names the thread paths accept
KnownGraphs == {"research", "chat"}

\* What assistants.search({graphId}) may return: agents of the graph, in any
\* order, none twice
SearchResults(graphId) ==
    {l \in ListsUpTo({a \in Agents : a.graph_id = graphId}, MaxFound) :
        \A i, j \in 1..Len(l) : i # j => l[i] # l[j]}

\* The placeholder descriptors of fetchAssistant
Placeholder(targetId, name) == Agent(targetId, targetId, name, Undefined)

\* assistantId || selectedAgentId || config.assistantId
FetchTarget(assistantId, selected, configId) ==
    OrElse(assistantId, OrElse(selected, configId))

\* A call of fetchAssistant that awaits the runtime
ResolveCall(target, origin) == [target |-> target, origin |-> origin]
IssueResolve(calls, target, origin) == Append(calls, ResolveCall(target, origin))
Remove(calls, i) == SubSeq(calls, 1, i - 1) \o SubSeq(calls, i + 1, Len(calls))

\* The ways fetchAssistant ends: what it logs, whether it rejects, and the
\* descriptor it hands to setAssistant
UuidFound(data) ==
    [how |-> "found", raised |-> FALSE, log |-> "none", assistant |-> data]

\* A direct lookup whose failure reaches the caller
UuidLookupRethrown(targetId) ==
    [how |-> "failed", raised |-> TRUE, log |-> "error", assistant |-> NoAssistant]

UuidLookupFailed(targetId) ==
    [how |-> "failed", raised |-> FALSE, log |-> "error",
     assistant |-> Placeholder(targetId, "Assistant")]

\* The last agent of the list that is marked as created by the system
DefaultAssistantLast(assistants) ==
    IF \E i \in 1..Len(assistants) : assistants[i].created_by = "system"
    THEN assistants[CHOOSE i \in 1..Len(assistants) :
            /\ assistants[i].created_by = "system"
            /\ \A j \in (i + 1)..Len(assistants) : assistants[j].created_by # "system"]
    ELSE NoAssistant

\* assistants.find(a => a.metadata?.created_by === "system"), NoAssistant
\* standing for undefined
DefaultAssistant(assistants) ==
    IF \E i \in 1..Len(assistants) : assistants[i].created_by = "system"
    THEN assistants[CHOOSE i \in 1..Len(assistants) :
            /\ assistants[i].created_by = "system"
            /\ \A j \in 1..(i - 1) : assistants[j].created_by # "system"]
    ELSE NoAssistant

\* The catch of the search branch: status is the error's status, "none" for
\* an error that has none
SearchFailed(targetId, status) ==
    [how |-> IF status = "404" THEN "failed404"
             ELSE IF status = "none" THEN "noDefault" ELSE "failedOther",
     raised |-> FALSE,
     log |-> IF status = "404" THEN "warn" ELSE "error",
     assistant |-> Placeholder(targetId, targetId)]

SearchReturned(targetId, assistants) ==
    IF DefaultAssistant(assistants) = NoAssistant
    THEN SearchFailed(targetId, "none")
    ELSE [how |-> "found", raised |-> FALSE, log |-> "none",
          assistant |-> DefaultAssistant(assistants)]

\* The record of a fetchAssistant call that ended
Ended(call, outcome, returned) ==
    [target |-> call.target, how |-> outcome.how, log |-> outcome.log,
     raised |-> outcome.raised, returned |-> returned, assistant |-> outcome.assistant]

LoadCall(t) == [thread |-> t, pc |-> "get", assistantId |-> Undefined]
SelectCall(t, assistantId) == [thread |-> t, assistantId |-> assistantId]

\* The record of a thread load that found the name of the thread's agent
Discovered(origin, name, before, after, resolutions) ==
    [tick |-> 1 - discovery.tick, origin |-> origin, name |-> name,
     before |-> before, after |-> after, resolutions |-> resolutions]

\* ---- the session the resolver runs in
PageThreads == {1}
ThreadAgentIds == {Undefined, "research", "chat", "other", U2, U5, U9}
ConfigAssistantIds == {Undefined, "chat", U1, U9}

sideVars == <<seenThreadId, pendingImagesForThread, sends, creating, timers,
              patches, metadata, created, alerts>>
restVars == <<sideVars, mergeVars, authVars, corrVars, intrVars, sessVars>>

InitAsst ==
    /\ configAssistantId \in ConfigAssistantIds
    /\ selectedAgentId = OrElse(configAssistantId, "research")
    /\ assistant = NoAssistant
    /\ depsAgentId = Unmounted
    /\ depsThreadId = NoThread
    /\ resolves = <<>>
    /\ loads = <<>>
    /\ selects = <<>>
    /\ threadAgent \in [PageThreads -> ThreadAgentIds]
    /\ lastResolve = NoResolve
    /\ lastWrite = NoWrite
    /\ discovery = NoDiscovery
    /\ raced = FALSE
    /\ userActions = 0
    /\ threadId \in {NoThread} \cup PageThreads
    /\ seenThreadId = NoThread
    /\ pendingImagesForThread = <<>>
    /\ sends = <<>>
    /\ creating = {}
    /\ timers = {}
    /\ patches = <<>>
    /\ metadata = [t \in Threads |-> EmptyMetadata]
    /\ created = 1
    /\ alerts = 0
    /\ IdleMerge /\ IdleAuth
    /\ IdleCorr
    /\ IdleIntr
    /\ IdleSess

SwitchInFlight == \E i \in 1..Len(resolves) : resolves[i].origin = "switch"
LoadInFlight == loads # <<>> \/ selects # <<>>

\* The commit of a render: the effect on [fetchAssistant] runs fetchAssistant()
\* when selectedAgentId changed (and on mount), the effect on [threadId,
\* client, fetchAssistant] runs loadThreadAssistant when either changed and a
\* thread is selected
PageEffects ==
    /\ depsAgentId # selectedAgentId \/ depsThreadId # threadId
    /\ resolves' = IF depsAgentId # selectedAgentId
                   THEN IssueResolve(resolves,
                            FetchTarget(Undefined, selectedAgentId, configAssistantId),
                            "effect")
                   ELSE resolves
    /\ discovery' = IF depsAgentId # selectedAgentId /\ lastWrite.by = "discovery"
                    THEN [discovery EXCEPT !.resolutions = @ + 1]
                    ELSE discovery
    /\ loads' = IF threadId # NoThread THEN Append(loads, LoadCall(threadId)) ELSE loads
    /\ raced' = (raced \/ (threadId # NoThread /\ SwitchInFlight))
    /\ depsAgentId' = selectedAgentId
    /\ depsThreadId' = threadId
    /\ UNCHANGED <<configAssistantId, selectedAgentId, assistant, selects, threadAgent,
                   lastResolve, lastWrite, userActions, threadId, restVars>>

\* fetchAssistant, UUID branch: assistants.get resolved
ResolveUuidFound(i) ==
    /\ IsUUID(resolves[i].target)
    /\ \E data \in Agents :
          /\ data.assistant_id = resolves[i].target
          /\ assistant' = UuidFound(data).assistant
          /\ lastResolve' = Ended(resolves[i], UuidFound(data), <<>>)
    /\ resolves' = Remove(resolves, i)
    /\ UNCHANGED <<configAssistantId, selectedAgentId, depsAgentId, depsThreadId, loads,
                   selects, threadAgent, lastWrite, discovery, raced, userActions,
                   threadId, restVars>>

\* fetchAssistant, UUID branch: assistants.get rejected
ResolveUuidFailed(i) ==
    /\ IsUUID(resolves[i].target)
    /\ LET outcome == UuidLookupFailed(resolves[i].target)
       IN  /\ assistant' = IF outcome.raised THEN assistant ELSE outcome.assistant
           /\ lastResolve' = Ended(resolves[i], outcome, <<>>)
    /\ resolves' = Remove(resolves, i)
    /\ UNCHANGED <<configAssistantId, selectedAgentId, depsAgentId, depsThreadId, loads,
                   selects, threadAgent, lastWrite, discovery, raced, userActions,
                   threadId, restVars>>

\* fetchAssistant, search branch: assistants.search resolved
ResolveSearchReturned(i, assistants) ==
    /\ ~IsUUID(resolves[i].target)
    /\ assistants \in SearchResults(resolves[i].target)
    /\ LET outcome == SearchReturned(resolves[i].target, assistants)
       IN  /\ assistant' = outcome.assistant
           /\ lastResolve' = Ended(resolves[i], outcome, assistants)
    /\ resolves' = Remove(resolves, i)
    /\ UNCHANGED <<configAssistantId, selectedAgentId, depsAgentId, depsThreadId, loads,
                   selects, threadAgent, lastWrite, discovery, raced, userActions,
                   threadId, restVars>>

\* fetchAssistant, search branch: assistants.search rejected
ResolveSearchFailed(i, status) ==
    /\ ~IsUUID(resolves[i].target)
    /\ LET outcome == SearchFailed(resolves[i].target, status)
       IN  /\ assistant' = outcome.assistant
           /\ lastResolve' = Ended(resolves[i], outcome, <<>>)
    /\ resolves' = Remove(resolves, i)
    /\ UNCHANGED <<configAssistantId, selectedAgentId, depsAgentId, depsThreadId, loads,
                   selects, threadAgent, lastWrite, discovery, raced, userActions,
                   threadId, restVars>>

\* setSelectedAgentId(value)
WriteSelected(by, value) ==
    /\ selectedAgentId' = value
    /\ lastWrite' = [by |-> by, value |-> value]

\* loadThreadAssistant: threads.get rejected
LoadThreadFailed(i) ==
    /\ loads[i].pc = "get"
    /\ loads' = Remove(loads, i)
    /\ UNCHANGED <<configAssistantId, selectedAgentId, assistant, depsAgentId,
                   depsThreadId, resolves, selects, threadAgent, lastResolve, lastWrite,
                   discovery, raced, userActions, threadId, restVars>>

\* loadThreadAssistant: threads.get resolved.  A graph name that is research
\* or chat goes through the updater of setSelectedAgentId, which calls
\* fetchAssistant when the name is not the current one; a UUID is looked up
LoadThreadGot(i) ==
    /\ loads[i].pc = "get"
    /\ LET threadAssistantId == threadAgent[loads[i].thread]
       IN  IF Falsy(threadAssistantId)
           THEN /\ loads' = Remove(loads, i)
                /\ UNCHANGED <<selectedAgentId, lastWrite, resolves, discovery>>
           ELSE IF IsUUID(threadAssistantId)
           THEN /\ loads' = [loads EXCEPT ![i].pc = "lookup",
                                          ![i].assistantId = threadAssistantId]
                /\ UNCHANGED <<selectedAgentId, lastWrite, resolves, discovery>>
           ELSE /\ loads' = Remove(loads, i)
                /\ IF threadAssistantId \in KnownGraphs
                      /\ selectedAgentId # threadAssistantId
                   THEN /\ resolves' = IssueResolve(resolves, threadAssistantId, "load")
                        /\ WriteSelected("discovery", threadAssistantId)
                        /\ discovery' = Discovered("load", threadAssistantId,
                                            selectedAgentId, threadAssistantId, 1)
                   ELSE /\ UNCHANGED <<selectedAgentId, lastWrite, resolves>>
                        /\ discovery' = Discovered("load", threadAssistantId,
                                            selectedAgentId, selectedAgentId, 0)
    /\ UNCHANGED <<configAssistantId, assistant, depsAgentId, depsThreadId, selects,
                   threadAgent, lastResolve, raced, userActions, threadId, restVars>>

\* loadThreadAssistant: assistants.get of the thread's agent rejected
LoadLookupFailed(i) ==
    /\ loads[i].pc = "lookup"
    /\ loads' = Remove(loads, i)
    /\ UNCHANGED <<configAssistantId, selectedAgentId, assistant, depsAgentId,
                   depsThreadId, resolves, selects, threadAgent, lastResolve, lastWrite,
                   discovery, raced, userActions, threadId, restVars>>

\* loadThreadAssistant: assistants.get of the thread's agent resolved
LoadLookedUp(i) ==
    /\ loads[i].pc = "lookup"
    /\ \E threadAssistant \in Agents :
          /\ threadAssistant.assistant_id = loads[i].assistantId
          /\ IF threadAssistant.graph_id \in KnownGraphs
                /\ selectedAgentId # threadAssistant.graph_id
             THEN /\ assistant' = threadAssistant
                  /\ WriteSelected("discovery", threadAssistant.graph_id)
                  /\ discovery' = Discovered("load", threadAssistant.graph_id,
                                      selectedAgentId, threadAssistant.graph_id, 0)
             ELSE /\ UNCHANGED <<assistant, selectedAgentId, lastWrite>>
                  /\ discovery' = Discovered("load", threadAssistant.graph_id,
                                      selectedAgentId, selectedAgentId, 0)
    /\ loads' = Remove(loads, i)
    /\ UNCHANGED <<configAssistantId, depsAgentId, depsThreadId, resolves, selects,
                   threadAgent, lastResolve, raced, userActions, threadId, restVars>>

\* handleAssistantChange(newAssistantId), from the agent menu
HandleAssistantChange(newAssistantId) ==
    /\ userActions < MaxUserActions
    /\ depsAgentId # Unmounted
    /\ userActions' = userActions + 1
    /\ WriteSelected("switch", newAssistantId)
    /\ threadId' = NoThread
    /\ resolves' = IssueResolve(resolves, newAssistantId, "switch")
    /\ raced' = (raced \/ LoadInFlight)
    /\ UNCHANGED <<configAssistantId, assistant, depsAgentId, depsThreadId, loads,
                   selects, threadAgent, lastResolve, discovery, restVars>>

\* onThreadSelect(id, assistantId), from the thread list
OnThreadSelect(id, assistantId) ==
    /\ userActions < MaxUserActions
    /\ depsAgentId # Unmounted
    /\ userActions' = userActions + 1
    /\ IF ~Falsy(assistantId) /\ ~IsUUID(assistantId) /\ assistantId \in KnownGraphs
       THEN /\ WriteSelected("discovery", assistantId)
            /\ resolves' = IssueResolve(resolves, assistantId, "select")
            /\ discovery' = Discovered("select", assistantId, selectedAgentId,
                                       assistantId, 1)
            /\ threadId' = id
            /\ UNCHANGED <<selects, raced>>
       ELSE IF ~Falsy(assistantId) /\ IsUUID(assistantId)
       THEN /\ selects' = Append(selects, SelectCall(id, assistantId))
            /\ raced' = (raced \/ SwitchInFlight)
            /\ UNCHANGED <<selectedAgentId, lastWrite, resolves, threadId, discovery>>
       ELSE /\ threadId' = id
            /\ discovery' = IF Falsy(assistantId) THEN discovery
                            ELSE Discovered("select", assistantId, selectedAgentId,
                                            selectedAgentId, 0)
            /\ UNCHANGED <<selectedAgentId, lastWrite, resolves, selects, raced>>
    /\ UNCHANGED <<configAssistantId, assistant, depsAgentId, depsThreadId, loads,
                   threadAgent, lastResolve, restVars>>

\* onThreadSelect: assistants.get resolved, then setThreadId(id)
SelectLookedUp(i) ==
    /\ \E threadAssistant \in Agents :
          /\ threadAssistant.assistant_id = selects[i].assistantId
          /\ IF threadAssistant.graph_id \in KnownGraphs
             THEN /\ WriteSelected("discovery", threadAssistant.graph_id)
                  /\ assistant' = threadAssistant
                  /\ discovery' = Discovered("select", threadAssistant.graph_id,
                                      selectedAgentId, threadAssistant.graph_id, 0)
             ELSE /\ UNCHANGED <<assistant, selectedAgentId, lastWrite>>
                  /\ discovery' = Discovered("select", threadAssistant.graph_id,
                                      selectedAgentId, selectedAgentId, 0)
    /\ selects' = Remove(selects, i)
    /\ threadId' = selects[i].thread
    /\ UNCHANGED <<configAssistantId, depsAgentId, depsThreadId, resolves, loads,
                   threadAgent, lastResolve, raced, userActions, restVars>>

\* onThreadSelect: assistants.get rejected, then setThreadId(id)
SelectLookupFailed(i) ==
    /\ selects' = Remove(selects, i)
    /\ threadId' = selects[i].thread
    /\ UNCHANGED <<configAssistantId, selectedAgentId, assistant, depsAgentId,
                   depsThreadId, resolves, loads, threadAgent, lastResolve, lastWrite,
                   discovery, raced, userActions, restVars>>

\* The New Thread button: setThreadId(null)
NewThread ==
    /\ userActions < MaxUserActions
    /\ depsAgentId # Unmounted
    /\ threadId # NoThread
    /\ userActions' = userActions + 1
    /\ threadId' = NoThread
    /\ UNCHANGED <<configAssistantId, selectedAgentId, assistant, depsAgentId,
                   depsThreadId, resolves, loads, selects, threadAgent, lastResolve,
                   lastWrite, discovery, raced, restVars>>

NextAsst ==
    \/ PageEffects
    \/ \E i \in 1..Len(resolves) : ResolveUuidFound(i)
    \/ \E i \in 1..Len(resolves) : ResolveUuidFailed(i)
    \/ \E i \in 1..Len(resolves) :
          \E assistants \in SearchResults(resolves[i].target) :
              ResolveSearchReturned(i, assistants)
    \/ \E i \in 1..Len(resolves), status \in {"404", "500"} :
          ResolveSearchFailed(i, status)
    \/ \E i \in 1..Len(loads) : LoadThreadFailed(i)
    \/ \E i \in 1..Len(loads) : LoadThreadGot(i)
    \/ \E i \in 1..Len(loads) : LoadLookupFailed(i)
    \/ \E i \in 1..Len(loads) : LoadLookedUp(i)
    \/ \E newAssistantId \in KnownGraphs : HandleAssistantChange(newAssistantId)
    \/ \E id \in PageThreads :
          \E assistantId \in {Undefined, threadAgent[id]} :
              OnThreadSelect(id, assistantId)
    \/ \E i \in 1..Len(selects) : SelectLookedUp(i)
    \/ \E i \in 1..Len(selects) : SelectLookupFailed(i)
    \/ NewThread

SpecAsst == InitAsst /\ [][NextAsst]_vars

\* ---- fetchAssistant alone: the page has mounted with a drawn
\* config.assistantId, the agent menu was or was not used, and the calls of
\* fetchAssistant this made are in flight
ResolveConfigIds == {Undefined, "chat", "other", U1, U2, U9}
Switches == {Undefined} \cup KnownGraphs

InitResolve ==
    /\ configAssistantId \in ResolveConfigIds
    /\ \E newAssistantId \in Switches :
          /\ selectedAgentId = OrElse(newAssistantId, OrElse(configAssistantId, "research"))
          /\ resolves =
                IssueResolve(<<>>,
                    FetchTarget(Undefined, OrElse(configAssistantId, "research"),
                                configAssistantId), "effect")
                \o (IF Falsy(newAssistantId) THEN <<>>
                    ELSE IssueResolve(<<>>, newAssistantId, "switch"))
          /\ lastWrite = IF Falsy(newAssistantId) THEN NoWrite
                         ELSE [by |-> "switch", value |-> newAssistantId]
          /\ userActions = IF Falsy(newAssistantId) THEN 0 ELSE 1
    /\ assistant = NoAssistant
    /\ depsAgentId = OrElse(configAssistantId, "research")
    /\ depsThreadId = NoThread
    /\ loads = <<>>
    /\ selects = <<>>
    /\ threadAgent \in [PageThreads -> {Undefined}]
    /\ lastResolve = NoResolve
    /\ discovery = NoDiscovery
    /\ raced = FALSE
    /\ IdleSync
    /\ IdleMerge /\ IdleAuth
    /\ IdleCorr
    /\ IdleIntr
    /\ IdleSess

NextResolve ==
    \/ \E i \in 1..Len(resolves) : ResolveUuidFound(i)
    \/ \E i \in 1..Len(resolves) : ResolveUuidFailed(i)
    \/ \E i \in 1..Len(resolves) :
          \E assistants \in SearchResults(resolves[i].target) :
              ResolveSearchReturned(i, assistants)
    \/ \E i \in 1..Len(resolves), status \in {"404", "500"} :
          ResolveSearchFailed(i, status)

SpecResolve == InitResolve /\ [][NextResolve]_vars

\* Vocabulary of the resolver claims
\* A step in which a call of fetchAssistant ends
ResolveEnds == Len(resolves') < Len(resolves)
Symbolic(id) == ~IsUUID(id)

\* C16: a call of fetchAssistant never rejects and ends with a descriptor with
\* a non-empty identifier in the assistant state, whether its target is a UUID
\* that exists, a UUID whose lookup fails, a symbolic name with a marked
\* default agent, or a symbolic name with no agent found or a failed search.
C16_ResolveStep ==
    ResolveEnds =>
        /\ ~lastResolve'.raised
        /\ assistant' = lastResolve'.assistant
        /\ ~Falsy(assistant'.assistant_id)
        /\ lastResolve'.how \in
              IF IsUUID(lastResolve'.target) THEN {"found", "failed"}
              ELSE {"found", "noDefault", "failed404", "failedOther"}
C16_Usable ==
    /\ ~lastResolve.raised
    /\ assistant # NoAssistant => ~Falsy(assistant.assistant_id)
C16_ResolveTotal == [][C16_ResolveStep]_vars /\ []C16_Usable

\* C16 witness: the lookup of a UUID that does not exist has failed, after a
\* search for a symbolic name had ended, and the state holds its placeholder
C16_Witness ==
    /\ lastResolve.how = "failed"
    /\ lastResolve.target = U9
    /\ assistant.assistant_id = U9
    /\ resolves = <<>>
    /\ lastWrite.by = "switch"

\* C17: after a failed direct lookup of a UUID-shaped id the placeholder
\* carries the requested identifier as its identifier and as its display name.
C17_UuidPlaceholderNamedAfterId ==
    (lastResolve.how = "failed" /\ IsUUID(lastResolve.target)) =>
        /\ lastResolve.assistant.assistant_id = lastResolve.target
        /\ lastResolve.assistant.name = lastResolve.target

\* C18: for a symbolic name, a search that returns an agent marked as system
\* default resolves to the first such agent in search order; with no agent
\* marked default or a failed search the result is the placeholder whose
\* identifier, graph name and display name are the symbolic id, the same for
\* a 404 error and any other error.
C18_ResolveSymbolicStep ==
    (ResolveEnds /\ Symbolic(lastResolve'.target)) =>
        LET returned == lastResolve'.returned
            defaults == {i \in 1..Len(returned) : returned[i].created_by = "system"}
        IN  /\ assistant' = lastResolve'.assistant
            /\ lastResolve'.how = "found" <=> defaults # {}
            /\ lastResolve'.how = "found" =>
                  \E i \in defaults :
                      /\ assistant' = returned[i]
                      /\ \A j \in defaults : i <= j
            /\ lastResolve'.how # "found" =>
                  assistant' = Agent(lastResolve'.target, lastResolve'.target,
                                     lastResolve'.target, Undefined)
C18_ResolveSymbolic == [][C18_ResolveSymbolicStep]_vars

\* C18 witness: a search that returned two agents marked as default resolved
\* to the first of them
C18_Witness ==
    /\ lastResolve.how = "found"
    /\ lastResolve.target = "research"
    /\ Len(lastResolve.returned) = 2
    /\ lastResolve.returned[1].created_by = "system"
    /\ lastResolve.returned[2].created_by = "system"
    /\ assistant = lastResolve.returned[1]

\* Vocabulary of the re-resolution claims
\* Nothing is in flight and the effects have run on the current state
Settled ==
    /\ resolves = <<>>
    /\ loads = <<>>
    /\ selects = <<>>
    /\ depsAgentId = selectedAgentId
    /\ depsThreadId = threadId

\* C19: a thread load that finds a name other than the selected logical id
\* sets the selected id to that name; one that finds the selected name leaves
\* the selected id alone and issues no re-resolution; and one thread load
\* causes at most one re-resolution.
C19_ReResolveOnlyOnChange ==
    discovery.origin # "none" =>
        /\ discovery.name # discovery.before => discovery.after = discovery.name
        /\ discovery.name = discovery.before =>
              /\ discovery.after = discovery.before
              /\ discovery.resolutions = 0
        /\ discovery.resolutions <= 1

\* C20: after a thread load and an agent switch that were in flight together,
\* the selected logical id is the value written to it last and the resolved
\* agent is an agent of the selected id.
C20_LastWriteWins ==
    (raced /\ Settled) =>
        /\ selectedAgentId = lastWrite.value
        /\ assistant.graph_id = selectedAgentId

\* The descriptor is a result of resolving the logical id
ResolvedFrom(descriptor, id) ==
    IF IsUUID(id) THEN descriptor.assistant_id = id ELSE descriptor.graph_id = id

\* C38: once nothing is in flight, the descriptor the session holds is a
\* result of resolving the selected logical id: no resolution started for a
\* superseded id has replaced it.
C38_DescriptorOfCurrentSelection ==
    Settled => ResolvedFrom(assistant, selectedAgentId)

----------------------------------------------------------------------------
\* The extraction of tool calls, on one assistant message at a time

\* The forms of the three places a tool call can be found in
ProviderShapes ==
    {NoList, ObjectValue, ListValue(<<>>),
     ListValue(<<Call("p1", "lookup", Undefined, "function", Undefined)>>)}
NormalizedShapes ==
    {NoList, ListValue(<<>>),
     ListValue(<<Call("n0", Undefined, "", Undefined, "q")>>),
     ListValue(<<SearchCall("n1")>>),
     ListValue(<<Call("n0", Undefined, "", Undefined, "q"), SearchCall("n1")>>),
     ListValue(<<Call(Undefined, Undefined, Undefined, Undefined, "q"),
                 SearchCall("n1")>>)}
ContentShapes ==
    {StringContent(<<"ok">>),
     BlockContent(<<TextBlock(<<"ok">>)>>),
     BlockContent(<<Call("b1", Undefined, "fetch", "tool_use", Undefined)>>),
     BlockContent(<<TextBlock(<<"ok">>),
                    Call("b1", Undefined, "fetch", "tool_use", Undefined)>>)}

\* What follows the assistant message: nothing, a human message, or the tool
\* message of one of its calls
ExtractTails ==
    {<<>>, <<HumanMessage("m2")>>}
    \cup {<<ToolMessage(k, StringContent(<<"3 results">>))>> : k \in {"p1", "n1", "b1"}}

InitExtract ==
    /\ \E p \in ProviderShapes, n \in NormalizedShapes, c \in ContentShapes,
          tail \in ExtractTails :
          messages = <<AiMessage("m1", p, n, c)>> \o tail
    /\ interrupt \in BOOLEAN
    /\ pass = 1
    /\ pos = 0
    /\ messageMap = <<>>
    /\ outputs = <<>>
    /\ IdleSync
    /\ IdleMerge /\ IdleAuth
    /\ IdlePage

NextExtract ==
    \/ ProcessAi
    \/ ProcessTool
    \/ ProcessHuman
    \/ ReturnProcessed

SpecExtract == InitExtract /\ [][NextExtract]_vars

\* Vocabulary of the extraction claims
ListOf(v) == IF v.kind = "list" THEN v.list ELSE <<>>
ProviderCalls(m) == ListOf(m.provider)
NormalizedCalls(m) == SelectSeq(ListOf(m.tool_calls), LAMBDA c : c.name # "")
InlineCalls(m) ==
    IF m.content.kind = "blocks"
    THEN SelectSeq(m.content.blocks, LAMBDA b : b.type = "tool_use")
    ELSE <<>>
\* The calls of the first source that is not empty
FirstNonEmptySource(m) ==
    IF ProviderCalls(m) # <<>> THEN ProviderCalls(m)
    ELSE IF NormalizedCalls(m) # <<>> THEN NormalizedCalls(m)
    ELSE InlineCalls(m)
IdsOf(calls) == [c \in 1..Len(calls) |-> calls[c].id]

\* C27: the tool calls of an assistant Turn are those of the first non-empty
\* source in the order provider-native field, normalized list, inline
\* tool-use blocks; an empty source does not stop the search.
C27_FirstNonEmptySource ==
    Len(outputs) >= 1 =>
        IdsOf(outputs[1][1].toolCalls) = IdsOf(FirstNonEmptySource(messages[1]))

\* C28: when an assistant Turn has both a provider-native list and a
\* normalized list, the tool calls of its record are those of the
\* provider-native list, and no call of the normalized list or of the inline
\* blocks is added.
C28_ProviderNativeWins ==
    (Len(outputs) >= 1
     /\ messages[1].provider.kind = "list"
     /\ messages[1].tool_calls.kind = "list")
    => IdsOf(outputs[1][1].toolCalls) = IdsOf(messages[1].provider.list)

\* C28 witness: a record built from a message with a provider-native call, a
\* normalized call and an inline tool-use block holds the provider-native call
C28_Witness ==
    /\ Len(outputs) >= 1
    /\ NormalizedCalls(messages[1]) # <<>>
    /\ InlineCalls(messages[1]) # <<>>
    /\ IdsOf(outputs[1][1].toolCalls) = <<"p1">>

\* The name the code's chain of fallbacks gives a call
NameByFallback(call) ==
    IF ~Falsy(call.fname) THEN call.fname
    ELSE IF ~Falsy(call.name) THEN call.name
    ELSE IF ~Falsy(call.type) THEN call.type
    ELSE "unknown"

\* The step of the forEach callback on a tool message
ToolStep ==
    /\ Running
    /\ messages[pos + 1].type = "tool"
    /\ pos' = pos + 1
\* The calls of the map, by record and place
CallPlaces ==
    UNION {{<<e, c>> : c \in 1..Len(messageMap[e].toolCalls)} : e \in 1..Len(messageMap)}
\* The calls a step changes
ChangedCalls ==
    {p \in CallPlaces :
        messageMap'[p[1]].toolCalls[p[2]] # messageMap[p[1]].toolCalls[p[2]]}
\* The calls, by record and place, with the id k
MatchingCalls(k) ==
    {p \in CallPlaces : messageMap[p[1]].toolCalls[p[2]].id = k}
\* p comes before q in record order, then in call order
Before(p, q) == p[1] < q[1] \/ (p[1] = q[1] /\ p[2] < q[2])

\* C39: a tool Turn changes at most one call of one record: the first call
\* with its id of the first record that has one, which it marks completed;
\* every other record and call stays as it was.
C39_ToolTurnChangesOneCall ==
    [][ToolStep =>
        LET k == messages[pos + 1].tool_call_id
        IN  /\ Len(messageMap') = Len(messageMap)
            /\ \A e \in 1..Len(messageMap) :
                  /\ messageMap'[e].key = messageMap[e].key
                  /\ messageMap'[e].message = messageMap[e].message
                  /\ Len(messageMap'[e].toolCalls) = Len(messageMap[e].toolCalls)
            /\ Cardinality(ChangedCalls) <= 1
            /\ \A p \in ChangedCalls :
                  /\ p \in MatchingCalls(k)
                  /\ \A q \in MatchingCalls(k) : ~Before(q, p)
            /\ \A p \in MatchingCalls(k) :
                  (\A q \in MatchingCalls(k) : ~Before(q, p))
                  => messageMap'[p[1]].toolCalls[p[2]].status = "completed"]_vars

\* C39 witness: after a tool Turn, of three calls with its id in two records
\* only the first call of the first record is completed
C39_Witness ==
    /\ pos >= 1
    /\ messages[pos].type = "tool"
    /\ Len(messageMap) = 2
    /\ Len(messageMap[1].toolCalls) = 2
    /\ Len(messageMap[2].toolCalls) = 1
    /\ \A e \in 1..2 : \A c \in 1..Len(messageMap[e].toolCalls) :
          /\ messageMap[e].toolCalls[c].id = messages[pos].tool_call_id
          /\ (messageMap[e].toolCalls[c].status = "completed") <=> (e = 1 /\ c = 1)

\* C31: every call of every record of every returned array has a non-empty
\* id (the call's own, else a synthesized one), a non-empty name (the function
\* name, else the call name, else the block type, else "unknown"), a status
\* among pending, interrupted and completed, and a result only when completed;
\* the record of a human Turn has no calls.
C31_RecordsWellFormed ==
    \A o \in 1..Len(outputs) : \A r \in 1..Len(outputs[o]) :
        LET record == outputs[o][r]
            calls == ToolCallsInMessage(record.message)
        IN  /\ record.message.type = "human" => record.toolCalls = <<>>
            /\ Len(record.toolCalls) = Len(calls)
            /\ \A c \in 1..Len(record.toolCalls) :
                  LET toolCall == record.toolCalls[c]
                  IN  /\ ~Falsy(toolCall.id)
                      /\ IF Falsy(calls[c].id) THEN toolCall.id \in RandomIds
                                               ELSE toolCall.id = calls[c].id
                      /\ ~Falsy(toolCall.name)
                      /\ toolCall.name = NameByFallback(calls[c])
                      /\ toolCall.status \in {"pending", "interrupted", "completed"}
                      /\ toolCall.result.set => toolCall.status = "completed"

\* C31 witness: a returned record holds a call with a synthesized id and the
\* last-resort name next to a completed call with its result
C31_Witness ==
    \E o \in 1..Len(outputs) : \E r \in 1..Len(outputs[o]) :
        \E c, d \in 1..Len(outputs[o][r].toolCalls) :
            /\ outputs[o][r].toolCalls[c].id \in RandomIds
            /\ outputs[o][r].toolCalls[c].name = "unknown"
            /\ outputs[o][r].toolCalls[d].status = "completed"
            /\ outputs[o][r].toolCalls[d].result.set


\* The status a call is given when its record is built
InitialStatus == IF interrupt THEN "interrupted" ELSE "pending"
\* A tool Turn after position i carries the tool_call_id k
HasLaterToolTurn(i, k) ==
    \E j \in ToolTurns : j > i /\ messages[j].tool_call_id = k

\* C29 as claimed: a call of the record of an assistant Turn is completed
\* when a tool Turn with its id comes after the assistant Turn, and otherwise
\* interrupted under an active InterruptSignal and pending without one.
C29_StatusFollowsToolTurns ==
    Len(outputs) >= 1 =>
        \A i \in AiTurns, r \in 1..Len(outputs[1]) :
            outputs[1][r].message = messages[i]
            => \A c \in 1..Len(outputs[1][r].toolCalls) :
                  LET call == outputs[1][r].toolCalls[c]
                  IN  IF HasLaterToolTurn(i, call.id)
                      THEN call.status = "completed"
                      ELSE call.status = InitialStatus

\* The last human or assistant Turn that carries the Turn identifier id: the
\* Turn the output record with that identifier was built from
LastTurnWithId(id) ==
    CHOOSE i \in RecordTurns :
        /\ messages[i].id = id
        /\ \A h \in RecordTurns : messages[h].id = id => h <= i
\* The id k is carried by one call of the assistant Turn i and by no call of
\* another assistant Turn
OnlyCallWithId(i, k) ==
    /\ Cardinality({c \in 1..Len(ToolCallsInMessage(messages[i])) :
                        ToolCallsInMessage(messages[i])[c].id = k}) = 1
    /\ \A a \in AiTurns \ {i} : k \notin ExtractedIds(a)

\* C29 amended: for every record of the output, taken with the last Turn that
\* carries its identifier: a call with no tool Turn of its id after that Turn
\* is interrupted under an active InterruptSignal and pending without one,
\* and has no result; a call with such a tool Turn is completed provided its
\* id is carried by no other call of the sequence.
C29_StatusOfOutputRecords ==
    Len(outputs) >= 1 =>
        \A r \in 1..Len(outputs[1]) :
            LET i == LastTurnWithId(outputs[1][r].message.id)
            IN  /\ outputs[1][r].message = messages[i]
                /\ \A c \in 1..Len(outputs[1][r].toolCalls) :
                      LET call == outputs[1][r].toolCalls[c]
                      IN  /\ ~HasLaterToolTurn(i, call.id)
                             => call.status = InitialStatus /\ call.result = NoResult
                          /\ (HasLaterToolTurn(i, call.id) /\ OnlyCallWithId(i, call.id))
                             => call.status = "completed"

\* C29 witness: under an active InterruptSignal the output holds a completed
\* call and an interrupted call whose only tool Turn came before its
\* assistant Turn
C29_Witness ==
    /\ Len(outputs) >= 1
    /\ interrupt
    /\ \E r \in 1..Len(outputs[1]) : \E c \in 1..Len(outputs[1][r].toolCalls) :
          LET call == outputs[1][r].toolCalls[c]
          IN  /\ call.status = "interrupted"
              /\ \E j \in ToolTurns : messages[j].tool_call_id = call.id
    /\ \E r \in 1..Len(outputs[1]) : \E c \in 1..Len(outputs[1][r].toolCalls) :
          outputs[1][r].toolCalls[c].status = "completed"

\* The Maps the forEach can have built after the first n messages of msgs
RECURSIVE MapsAfter(_, _, _)
MapsAfter(msgs, n, interrupted) ==
    IF n = 0 THEN {<<>>}
    ELSE LET prev == MapsAfter(msgs, n - 1, interrupted)
             message == msgs[n]
         IN  IF message.type = "ai"
             THEN {MessageMapSet(map, message.id,
                       [message |-> message,
                        toolCalls |-> ToolCallsWithStatus(message, randoms, interrupted)]) :
                     map \in prev,
                     randoms \in [1..Len(ToolCallsInMessage(message)) -> RandomIds]}
             ELSE IF message.type = "tool"
             THEN {CompleteToolCall(map, message) : map \in prev}
             ELSE {MessageMapSet(map, message.id,
                       [message |-> message, toolCalls |-> <<>>]) : map \in prev}
\* The arrays processedMessages can return for msgs
CorrelatorOutputs(msgs, interrupted) ==
    {ProcessedArray(map) : map \in MapsAfter(msgs, Len(msgs), interrupted)}
\* The sequence without its j-th Turn
Without(msgs, j) == SubSeq(msgs, 1, j - 1) \o SubSeq(msgs, j + 1, Len(msgs))
\* The assistant Turns whose record is in the Map when Turn j is processed
BuiltBefore(j) ==
    {i \in AiTurns : i < j /\ \A h \in RecordTurns : (i < h /\ h < j) =>
                                    messages[h].id # messages[i].id}
\* The tool Turn j has no tool_call_id, or one that no call of a record built
\* so far carries
AnswersNothing(j) ==
    /\ j \in ToolTurns
    /\ \/ Falsy(messages[j].tool_call_id)
       \/ \A i \in BuiltBefore(j) : messages[j].tool_call_id \notin ExtractedIds(i)

\* C30: a tool Turn without a tool_call_id, or whose tool_call_id matches no
\* call of a record built so far, is discarded: the array returned for the
\* sequence is one the correlator returns for the sequence without that Turn,
\* and the two sequences have the same possible outputs.
C30_UnmatchedToolTurnDiscarded ==
    (Len(outputs) = 1 /\ pos = 0) =>
        \A j \in 1..Len(messages) :
            AnswersNothing(j) =>
                /\ outputs[1] \in CorrelatorOutputs(Without(messages, j), interrupt)
                /\ CorrelatorOutputs(messages, interrupt)
                       = CorrelatorOutputs(Without(messages, j), interrupt)

\* C30 witness: a tool Turn whose id no record carried was passed over while a
\* record with a call was in the Map, and a later tool Turn completed that call
C30_Witness ==
    /\ Len(outputs) = 1
    /\ \E j \in ToolTurns :
          /\ AnswersNothing(j)
          /\ ~Falsy(messages[j].tool_call_id)
          /\ \E i \in BuiltBefore(j) : ExtractedIds(i) # {}
          /\ \E t \in ToolTurns : t > j /\ ~AnswersNothing(t)
    /\ \E r \in 1..Len(outputs[1]) : \E c \in 1..Len(outputs[1][r].toolCalls) :
          outputs[1][r].toolCalls[c].status = "completed"

----------------------------------------------------------------------------
\* ConversationSession: the operations of useChat, the runtime options of
\* ChatProvider and handleSubmit

RecursionLimit == 100

\* The values updateRuntimeConfig can install
RuntimeConfigs ==
    {DefaultRuntimeConfig,
     [model_name |-> Undefined, selected_tools |-> AbsentValue,
      selected_subagents |-> AbsentValue],
     [model_name |-> "anthropic:claude", selected_tools |-> ListValue(<<>>),
      selected_subagents |-> ListValue(<<>>)]}

\* The configurations a resolved agent can carry
AgentConfigs ==
    {NoConfig,
     [recursion_limit |-> 25,
      configurable |-> Configurable("agent-model", ListValue(<<"agent_tool">>),
                                    ListValue(<<"agent-sub">>), "u1")]}

\* The configurable object built by sendMessage, continueStream and
\* runSingleStep: the agent's own, then model_name and selected_tools of the
\* runtime options where they are truthy
MergedConfigurable(agent, rc) ==
    Configurable(IF Falsy(rc.model_name) THEN agent.configurable.model_name
                 ELSE rc.model_name,
                 IF rc.selected_tools.kind = "list" THEN rc.selected_tools
                 ELSE agent.configurable.selected_tools,
                 agent.configurable.selected_subagents,
                 agent.configurable.user_id)
\* The config of sendMessage and continueStream
SubmitConfig(agent, rc) ==
    [recursion_limit |-> RecursionLimit, configurable |-> MergedConfigurable(agent, rc)]
\* The config of runSingleStep
StepConfig(agent, rc) ==
    [recursion_limit |-> agent.recursion_limit,
     configurable |-> MergedConfigurable(agent, rc)]

\* A handler that submits and does not call onHistoryRevalidate
SubmitOnly == <<"submit">>
\* stream.submit(...) followed by onHistoryRevalidate?.()
NotifiedSubmit == <<"submit", "history">>

\* The record of a handler call
CallOf(op, events, config, text, turn) ==
    [op |-> op, events |-> events, config |-> config, text |-> text, turn |-> turn,
     control |-> NoControl, arg |-> Undefined]

\* sendMessage(content, uploadedImages) as built by a render that saw the
\* thread id seen; imageRefs are the {doc_id, storage_path} of uploadedImages
SendWith(seen, hasText, imageRefs) ==
    /\ Len(sends) < MaxSends
    /\ hasText \/ imageRefs # <<>>
    /\ LET k == Len(sends) + 1
       IN  /\ sends' = Append(sends, [images |-> imageRefs, text |-> hasText,
                                      seen |-> seen, thread |-> seen])
           /\ creating' = IF seen = NoThread THEN creating \cup {k} ELSE creating
           /\ IF Len(imageRefs) > 0
              THEN IF seen # NoThread
                   THEN /\ timers' = timers \cup {[send |-> k, thread |-> seen,
                                                   images |-> imageRefs]}
                        /\ UNCHANGED pendingImagesForThread
                   ELSE /\ pendingImagesForThread' =
                               PendingAfterSend(pendingImagesForThread, imageRefs)
                        /\ UNCHANGED timers
              ELSE UNCHANGED <<timers, pendingImagesForThread>>
    /\ isLoading' = TRUE
    /\ UNCHANGED <<threadId, seenThreadId, patches, metadata, created>>

\* sendMessage with the one image of the send, or with none
SendFrom(seen, hasText, hasImage) ==
    SendWith(seen, hasText, IF hasImage THEN <<UploadedImage(Len(sends) + 1)>> ELSE <<>>)

\* The frame of a session action outside the session and SideChannelSync
SessionFrame == UNCHANGED <<mergeVars, authVars, corrVars, intrVars, asstVars>>

\* setRuntimeConfig; rebuilt tells whether continueStream is rebuilt by the
\* render that follows (its dependencies leave out runtimeConfig)
UpdateRuntimeConfig(rc, rebuilt) ==
    /\ rc # runtimeConfig
    /\ runtimeConfig' = rc
    /\ continueConfig' = IF rebuilt THEN rc ELSE continueConfig
    /\ UNCHANGED <<activeConfig, uploads, isLoading, lastCall, syncVars>>
    /\ SessionFrame

\* handleSubmit with text and no image: sendMessage(messageText)
HandleSubmitText ==
    /\ ~isLoading
    /\ SendFrom(seenThreadId, TRUE, FALSE)
    /\ lastCall' = CallOf("send", NotifiedSubmit,
                          SubmitConfig(activeConfig, runtimeConfig), TRUE, "text")
    /\ UNCHANGED <<runtimeConfig, activeConfig, uploads, continueConfig, alerts>>
    /\ SessionFrame

\* handleSubmit with images, up to the await of uploadImages
HandleSubmitImages(hasText) ==
    /\ ~isLoading
    /\ Len(sends) + Cardinality(uploads) + alerts < MaxSends
    /\ uploads' = uploads \cup
           {[n |-> Len(sends) + Cardinality(uploads) + alerts + 1, text |-> hasText,
             seen |-> seenThreadId, config |-> SubmitConfig(activeConfig, runtimeConfig)]}
    /\ UNCHANGED <<runtimeConfig, activeConfig, continueConfig, isLoading, lastCall,
                   syncVars>>
    /\ SessionFrame

\* uploadImages resolved: sendMessage(messageText, uploadedImages), with the
\* sendMessage of the render handleSubmit was called in
UploadResolved(u) ==
    /\ u \in uploads
    /\ uploads' = uploads \ {u}
    /\ SendFrom(u.seen, u.text, TRUE)
    /\ lastCall' = CallOf("send", NotifiedSubmit, u.config, u.text, "multimodal")
    /\ UNCHANGED <<runtimeConfig, activeConfig, continueConfig, alerts>>
    /\ SessionFrame

\* A catch block of handleSubmit that sends nothing
NeverSendsText(messageText) == FALSE
\* if (messageText) sendMessage(messageText)
SendsTextAfterFailedUpload(messageText) == messageText

\* A catch block of handleSubmit without the alert
AlertsUnchanged(n) == n
\* alert(`Failed to upload images: ...`)
AlertsAfterFailedUpload(n) == n + 1

\* uploadImages rejected: console.error, alert, and the text-only send if
\* there is text
UploadRejected(u) ==
    /\ u \in uploads
    /\ uploads' = uploads \ {u}
    /\ alerts' = AlertsAfterFailedUpload(alerts)
    /\ IF SendsTextAfterFailedUpload(u.text)
       THEN /\ SendFrom(u.seen, TRUE, FALSE)
            /\ lastCall' = CallOf("failedUpload", <<"alert">> \o NotifiedSubmit,
                                  u.config, u.text, "text")
       ELSE /\ lastCall' = CallOf("failedUpload", <<"alert">>, NoConfig, u.text, "none")
            /\ UNCHANGED <<threadId, seenThreadId, pendingImagesForThread, sends,
                           creating, timers, patches, metadata, created, isLoading>>
    /\ UNCHANGED <<runtimeConfig, activeConfig, continueConfig>>
    /\ SessionFrame

\* resumeInterrupt(value)
ResumeInterrupt ==
    /\ isLoading' = TRUE
    /\ lastCall' = CallOf("resume", NotifiedSubmit, NoConfig, FALSE, "none")
    /\ UNCHANGED <<runtimeConfig, activeConfig, uploads, continueConfig, syncVars>>
    /\ SessionFrame

\* The values of the optional argument hasTaskToolCall
TaskFlags == {"true", "false", Undefined}

\* Run-control options that pause before the tool step whatever the argument
InterruptAlwaysBefore(hasTaskToolCall) ==
    [interruptBefore |-> <<"tools">>, interruptAfter |-> <<>>]

\* hasTaskToolCall ? { interruptAfter: ["tools"] } : { interruptBefore: ["tools"] }
InterruptOptions(hasTaskToolCall) ==
    IF hasTaskToolCall = "true"
    THEN [interruptBefore |-> <<>>, interruptAfter |-> <<"tools">>]
    ELSE [interruptBefore |-> <<"tools">>, interruptAfter |-> <<>>]

\* continueStream(hasTaskToolCall)
ContinueStream(hasTaskToolCall) ==
    /\ isLoading' = TRUE
    /\ lastCall' = [CallOf("continue", NotifiedSubmit,
                           SubmitConfig(activeConfig, continueConfig), FALSE, "none")
                    EXCEPT !.control = InterruptOptions(hasTaskToolCall),
                           !.arg = hasTaskToolCall]
    /\ UNCHANGED <<runtimeConfig, activeConfig, uploads, continueConfig, syncVars>>
    /\ SessionFrame

\* markCurrentThreadAsResolved()
MarkCurrentThreadAsResolved ==
    /\ isLoading' = TRUE
    /\ lastCall' = CallOf("markResolved", NotifiedSubmit, NoConfig, FALSE, "none")
    /\ UNCHANGED <<runtimeConfig, activeConfig, uploads, continueConfig, syncVars>>
    /\ SessionFrame

\* runSingleStep(messages, checkpoint, ...): a submit and no notification
RunSingleStep ==
    /\ isLoading' = TRUE
    /\ lastCall' = CallOf("runSingleStep", <<"submit">>,
                          StepConfig(activeConfig, runtimeConfig), FALSE, "none")
    /\ UNCHANGED <<runtimeConfig, activeConfig, uploads, continueConfig, syncVars>>
    /\ SessionFrame

\* A stop that also drops the timeouts of Path A
TimersCleared(t) == {}
\* stream.stop() leaves the timeouts of Path A alone
TimersAfterStop(t) == t

\* stopStream(): stream.stop()
StopStream ==
    /\ isLoading' = FALSE
    /\ timers' = TimersAfterStop(timers)
    /\ lastCall' = CallOf("stop", <<"stop">>, NoConfig, FALSE, "none")
    /\ UNCHANGED <<runtimeConfig, activeConfig, uploads, continueConfig, threadId,
                   seenThreadId, pendingImagesForThread, sends, creating, patches,
                   metadata, created, alerts>>
    /\ SessionFrame

\* The run ended by itself: isLoading falls (useStream then calls onFinish,
\* which is onHistoryRevalidate: a notification of the stream, not of a call)
RunFinished ==
    /\ isLoading
    /\ isLoading' = FALSE
    /\ UNCHANGED <<runtimeConfig, activeConfig, uploads, continueConfig, lastCall,
                   syncVars>>
    /\ SessionFrame

\* ---- the session with its runtime options: the operations of useChat
InitSession ==
    /\ InitSync
    /\ IdleMerge /\ IdleAuth
    /\ IdleCorr
    /\ IdleIntr
    /\ IdleAsst
    /\ runtimeConfig = DefaultRuntimeConfig
    /\ continueConfig = DefaultRuntimeConfig
    /\ activeConfig \in AgentConfigs
    /\ uploads = {}
    /\ isLoading = FALSE
    /\ lastCall = NoCall

NextSession ==
    \/ \E rc \in RuntimeConfigs, rebuilt \in BOOLEAN : UpdateRuntimeConfig(rc, rebuilt)
    \/ HandleSubmitText
    \/ ResumeInterrupt
    \/ \E hasTaskToolCall \in TaskFlags : ContinueStream(hasTaskToolCall)
    \/ MarkCurrentThreadAsResolved
    \/ RunSingleStep
    \/ StopStream
    \/ RunFinished

SpecSession == InitSession /\ [][NextSession]_vars

\* ---- handleSubmit, stop and SideChannelSync together
InitSubmit ==
    /\ InitSync
    /\ IdleMerge /\ IdleAuth
    /\ IdleCorr
    /\ IdlePage

NextSubmit ==
    \/ HandleSubmitText
    \/ \E hasText \in BOOLEAN : HandleSubmitImages(hasText)
    \/ \E u \in uploads : UploadResolved(u)
    \/ \E u \in uploads : UploadRejected(u)
    \/ StopStream
    \/ RunFinished
    \/ \E s \in 1..MaxSends, env \in Envs : OnThreadId(s, env)
    \/ \E s \in 1..MaxSends : CreateFailed(s)
    \/ Render
    \/ \E tm \in timers, env \in Envs : TimerFired(tm, env)
    \/ \E i \in 1..MaxSends : ThreadRead(i)
    \/ \E i \in 1..MaxSends : ThreadReadFailed(i)
    \/ \E i \in 1..MaxSends : PatchWritten(i)
    \/ \E i \in 1..MaxSends : PatchNetworkError(i)
    \/ \E i \in 1..MaxSends : PatchNotOk(i)

SpecSubmit == InitSubmit /\ [][NextSubmit]_vars

\* ---- handleSubmit with its input and files, and the Turn sendMessage builds

\* String.prototype.trim on a text held as a sequence of tokens, " " being
\* white space
RECURSIVE TrimStart(_)
TrimStart(t) == IF t # <<>> /\ Head(t) = " " THEN TrimStart(Tail(t)) ELSE t
RECURSIVE TrimEnd(_)
TrimEnd(t) ==
    IF t # <<>> /\ t[Len(t)] = " " THEN TrimEnd(SubSeq(t, 1, Len(t) - 1)) ELSE t
Trim(t) == TrimEnd(TrimStart(t))

\* What the upload collaborator returns for the file f
UploadedFile(f) == [doc_id |-> f, storage_url |-> f + 20, storage_path |-> f + 10]
\* A file whose upload has not resolved
NotUploaded == [doc_id |-> 0, storage_url |-> 0, storage_path |-> 0]

TextPart(text) == [type |-> "text", text |-> text]
ImageUrlPart(url) == [type |-> "image_url", url |-> url]

\* contentParts with the text part whatever the text
ContentPartsWithText(content, uploadedImages) ==
    <<TextPart(content)>>
    \o [i \in 1..Len(uploadedImages) |-> ImageUrlPart(uploadedImages[i].storage_url)]

\* contentParts: the text part if content.trim(), then one image_url part per
\* image
ContentParts(content, uploadedImages) ==
    (IF Trim(content) # <<>> THEN <<TextPart(content)>> ELSE <<>>)
    \o [i \in 1..Len(uploadedImages) |-> ImageUrlPart(uploadedImages[i].storage_url)]

\* additional_kwargs.uploaded_images
UploadedImagesOf(uploadedImages) ==
    [i \in 1..Len(uploadedImages) |->
        ImageRef(uploadedImages[i].doc_id, uploadedImages[i].storage_path)]

\* newMessage
NewMessage(id, content, uploadedImages) ==
    [type |-> "human",
     id |-> id,
     content |-> IF Len(uploadedImages) > 0
                 THEN BlockContent(ContentParts(content, uploadedImages))
                 ELSE StringContent(content),
     uploaded_images |-> IF Len(uploadedImages) > 0
                         THEN ListValue(UploadedImagesOf(uploadedImages))
                         ELSE AbsentValue]

\* The values uuidv4() is drawn from
Uuids == {"u1", "u2"}

\* sendMessage(content, uploadedImages): the effects of SendWith and the
\* optimistic append of newMessage
SendTurn(seen, content, uploadedImages) ==
    /\ SendWith(seen, Trim(content) # <<>>, UploadedImagesOf(uploadedImages))
    /\ \E id \in Uuids :
          messages' = Append(messages, NewMessage(id, content, uploadedImages))
    /\ UNCHANGED <<interrupt, pass, pos, messageMap, outputs, mergeVars, authVars, intrVars,
                   asstVars, runtimeConfig, activeConfig, continueConfig>>

\* The record of a handler call with what it was called on
CallOn(op, events, config, text, turn, content, images, results) ==
    [CallOf(op, events, config, text, turn) EXCEPT
        !.arg = [content |-> content, images |-> images, results |-> results]]

\* handleSubmit on the input and the selected files: the send of Path C, or
\* the start of uploadImages
HandleSubmitInput(input, files) ==
    LET messageText == Trim(input)
    IN  /\ ~(messageText = <<>> /\ files = <<>>)
        /\ ~isLoading
        /\ Len(sends) + Cardinality(uploads) + alerts < MaxSends
        /\ IF files # <<>>
           THEN /\ uploads' = uploads \cup
                       {[n |-> Len(sends) + Cardinality(uploads) + alerts + 1,
                         text |-> messageText,
                         seen |-> seenThreadId,
                         config |-> SubmitConfig(activeConfig, runtimeConfig),
                         files |-> files,
                         results |-> [i \in 1..Len(files) |-> NotUploaded]]}
                /\ UNCHANGED <<runtimeConfig, activeConfig, continueConfig, isLoading,
                               lastCall, syncVars>>
                /\ SessionFrame
           ELSE /\ SendTurn(seenThreadId, messageText, <<>>)
                /\ lastCall' = CallOn("send", NotifiedSubmit,
                                      SubmitConfig(activeConfig, runtimeConfig),
                                      TRUE, "text", messageText, <<>>, <<>>)
                /\ UNCHANGED <<uploads, alerts>>

\* The fetch of the i-th file of an upload answered ok
FileUploaded(u, i) ==
    /\ u \in uploads
    /\ i \in 1..Len(u.files)
    /\ u.results[i] = NotUploaded
    /\ uploads' = (uploads \ {u})
                     \cup {[u EXCEPT !.results[i] = UploadedFile(u.files[i])]}
    /\ UNCHANGED <<runtimeConfig, activeConfig, continueConfig, isLoading, lastCall,
                   syncVars>>
    /\ SessionFrame

\* Promise.all resolved: sendMessage(messageText, uploadedImages)
AllUploaded(u) ==
    /\ u \in uploads
    /\ \A i \in 1..Len(u.files) : u.results[i] # NotUploaded
    /\ uploads' = uploads \ {u}
    /\ SendTurn(u.seen, u.text, u.results)
    /\ lastCall' = CallOn("send", NotifiedSubmit, u.config, u.text # <<>>,
                          "multimodal", u.text, u.results, u.results)
    /\ UNCHANGED alerts

\* A catch block that sends the images uploaded so far
ImagesUploadedSoFar(results) == SelectSeq(results, LAMBDA r : r # NotUploaded)
\* The catch block: sendMessage(messageText), uploadedImages defaulting to []
ImagesAfterFailedUpload(results) == <<>>

\* The fetch of the i-th file failed or answered not ok: Promise.all rejects
\* and the catch block of handleSubmit runs
FileRejected(u, i) ==
    /\ u \in uploads
    /\ i \in 1..Len(u.files)
    /\ u.results[i] = NotUploaded
    /\ uploads' = uploads \ {u}
    /\ alerts' = AlertsAfterFailedUpload(alerts)
    /\ IF u.text # <<>>
       THEN /\ SendTurn(u.seen, u.text, ImagesAfterFailedUpload(u.results))
            /\ lastCall' = CallOn("failedUpload", <<"alert">> \o NotifiedSubmit,
                                  u.config, TRUE, "text", u.text,
                                  ImagesAfterFailedUpload(u.results), u.results)
       ELSE /\ lastCall' = CallOn("failedUpload", <<"alert">>, NoConfig, FALSE,
                                  "none", u.text, <<>>, u.results)
            /\ UNCHANGED <<threadId, seenThreadId, pendingImagesForThread, sends,
                           creating, timers, patches, metadata, created, isLoading,
                           runtimeConfig, activeConfig, continueConfig>>
            /\ SessionFrame

\* The inputs of handleSubmit: the text typed and the files selected
Inputs == {<<>>, <<" ">>, <<"hi">>, <<" ", "hi">>}
FileLists == {<<>>, <<1>>, <<2>>, <<1, 2>>, <<2, 1>>}
\* The Turn sequences the session starts with
PriorTurns ==
    {<<>>,
     <<HumanMessage("m1"), AiMessage("m2", NoList, NoList, StringContent(<<"ok">>))>>}

InitTurn ==
    /\ InitSync
    /\ IdleMerge /\ IdleAuth
    /\ IdlePage
    /\ messages \in PriorTurns
    /\ interrupt = FALSE
    /\ pass = 0
    /\ pos = 0
    /\ messageMap = <<>>
    /\ outputs = <<>>

NextTurn ==
    \/ \E input \in Inputs, files \in FileLists : HandleSubmitInput(input, files)
    \/ \E u \in uploads : \E i \in 1..Len(u.files) : FileUploaded(u, i)
    \/ \E u \in uploads : AllUploaded(u)
    \/ \E u \in uploads : \E i \in 1..Len(u.files) : FileRejected(u, i)
    \/ RunFinished

SpecTurn == InitTurn /\ [][NextTurn]_vars

\* ---- the authentication flow: the sign-in page, the login dialog and the
\* callback page

\* key.includes("service_role") || key.startsWith("sb_secret_")
IsServiceKey(key) ==
    \/ \E i \in 1..Len(key) : key[i] = "service_role"
    \/ (key # <<>> /\ key[1] = "sb_secret_")

\* createClient(supabaseUrl, supabaseKey), by tells the caller
CreateClient(by, supabaseUrl, supabaseKey) ==
    [by |-> by, supabaseUrl |-> supabaseUrl, supabaseKey |-> supabaseKey]

\* The keys and URLs a configuration or the environment can hold
AuthKeys ==
    {<<>>, <<"eyJ", "anon">>, <<"eyJ", "service_role", "sig">>,
     <<"sb_secret_", "k1">>, <<"sb_publishable_", "k1">>}
AuthUrls == {Undefined, "https://project.supabase.co"}

AuthFrame == UNCHANGED <<syncVars, mergeVars, corrVars, pageVars>>

\* The effect of AuthPage on mount: the saved configuration merged with the
\* environment, a service key dropped from either
AuthPageLoad ==
    /\ IF ~savedConfig.present
       THEN /\ authPage' = [authPage EXCEPT !.configDialogOpen = TRUE]
            /\ UNCHANGED savedConfig
       ELSE LET envSupabaseAnonKey ==
                    IF authEnv.supabaseAnonKey # <<>> /\ IsServiceKey(authEnv.supabaseAnonKey)
                    THEN <<>> ELSE authEnv.supabaseAnonKey
                mergedKey == IF savedConfig.supabaseAnonKey # <<>>
                             THEN savedConfig.supabaseAnonKey ELSE envSupabaseAnonKey
                serviceKey == mergedKey # <<>> /\ IsServiceKey(mergedKey)
                mergedConfig ==
                    [savedConfig EXCEPT
                        !.supabaseUrl = OrElse(savedConfig.supabaseUrl, authEnv.supabaseUrl),
                        !.supabaseAnonKey = IF serviceKey THEN <<>> ELSE mergedKey]
                envUsed ==
                    /\ ~Falsy(authEnv.supabaseUrl) \/ envSupabaseAnonKey # <<>>
                    /\ Falsy(savedConfig.supabaseUrl) \/ savedConfig.supabaseAnonKey = <<>>
                hasSupabase ==
                    ~Falsy(mergedConfig.supabaseUrl) /\ mergedConfig.supabaseAnonKey # <<>>
            IN  /\ savedConfig' = IF serviceKey \/ envUsed THEN mergedConfig
                                                             ELSE savedConfig
                /\ authPage' = [authPage EXCEPT
                        !.config = mergedConfig,
                        !.error = IF ~hasSupabase THEN "notConfigured"
                                  ELSE IF serviceKey THEN "serviceKeyInConfig"
                                  ELSE @]
    /\ UNCHANGED <<authEnv, supabase>>
    /\ AuthFrame

\* handleSaveConfig(newConfig), newConfig being what ConfigDialog hands over
HandleSaveConfig(newConfig) ==
    /\ savedConfig' = newConfig
    /\ authPage' = [config |-> newConfig, configDialogOpen |-> FALSE, error |-> "none"]
    /\ UNCHANGED <<authEnv, supabase>>
    /\ AuthFrame

\* handleSubmit and handleGoogleSignIn of AuthPage up to createClient: the
\* configuration is tested, then the key, then the client is made
SignIn(by) ==
    /\ authPage.config.present
    /\ IF Falsy(authPage.config.supabaseUrl) \/ authPage.config.supabaseAnonKey = <<>>
       THEN /\ authPage' = [authPage EXCEPT !.error = "notConfigured",
                                            !.configDialogOpen = TRUE]
            /\ UNCHANGED supabase
       ELSE IF IsServiceKey(authPage.config.supabaseAnonKey)
       THEN /\ authPage' = [authPage EXCEPT !.error = "serviceKey",
                                            !.configDialogOpen = TRUE]
            /\ UNCHANGED supabase
       ELSE /\ supabase' = CreateClient(by, authPage.config.supabaseUrl,
                                        authPage.config.supabaseAnonKey)
            /\ authPage' = [authPage EXCEPT !.error = "none"]
    /\ UNCHANGED <<savedConfig, authEnv>>
    /\ AuthFrame

\* handleSubmit of AuthPage: email and password sign-in or sign-up
AuthHandleSubmit == SignIn("password")

\* handleGoogleSignIn of AuthPage
HandleGoogleSignIn == SignIn("google")

\* SupabaseLoginDialog rendered with the props supabaseUrl and supabaseAnonKey
SupabaseLoginDialog(supabaseUrl, supabaseAnonKey) ==
    /\ supabase' = CreateClient("dialog", supabaseUrl, supabaseAnonKey)
    /\ UNCHANGED <<savedConfig, authEnv, authPage>>
    /\ AuthFrame

\* handleCallback of AuthCallbackPage: the client is made from the saved
\* configuration; a token found in the hash or in the session is saved
HandleCallback(gotToken) ==
    /\ savedConfig.present
    /\ ~Falsy(savedConfig.supabaseUrl)
    /\ savedConfig.supabaseAnonKey # <<>>
    /\ supabase' = CreateClient("callback", savedConfig.supabaseUrl,
                                savedConfig.supabaseAnonKey)
    /\ savedConfig' = IF gotToken THEN [savedConfig EXCEPT !.authToken = "token"]
                                  ELSE savedConfig
    /\ UNCHANGED <<authEnv, authPage>>
    /\ AuthFrame

InitAuth ==
    /\ InitSync
    /\ IdleMerge
    /\ IdleCorr
    /\ IdlePage
    /\ savedConfig = NoStandaloneConfig
    /\ authEnv \in [supabaseUrl : AuthUrls, supabaseAnonKey : AuthKeys]
    /\ authPage = [config |-> NoStandaloneConfig, configDialogOpen |-> FALSE,
                   error |-> "none"]
    /\ supabase = NoClient

NextAuth ==
    \/ AuthPageLoad
    \/ \E url \in AuthUrls, key \in AuthKeys :
          HandleSaveConfig(StandaloneConfig(TRUE, url, key, Undefined))
    \/ AuthHandleSubmit
    \/ HandleGoogleSignIn
    \/ \E url \in AuthUrls \ {Undefined}, key \in AuthKeys \ {<<>>} :
          SupabaseLoginDialog(url, key)
    \/ \E gotToken \in BOOLEAN : HandleCallback(gotToken)

SpecAuth == InitAuth /\ [][NextAuth]_vars

\* C40: no client of the authentication flow is made with a key that
\* contains "service_role" or starts with "sb_secret_".
C40_NoClientWithServiceKey ==
    ~IsServiceKey(supabase.supabaseKey)

\* Vocabulary of the session claims
\* The step is a sendMessage call
SendStep == Len(sends') = Len(sends) + 1 /\ lastCall'.op = "send"
\* The step ends an upload without a send that carries images: the upload failed
FailedUploadStep ==
    /\ \E u \in uploads : uploads' = uploads \ {u}
    /\ ~(Len(sends') = Len(sends) + 1 /\ sends'[Len(sends')].images # <<>>)
\* The upload that ends in the step
EndedUpload == CHOOSE u \in uploads : uploads' = uploads \ {u}
\* The step is a stopStream call that is not a repetition of the last one
StopStep == lastCall'.op = "stop" /\ (lastCall.op # "stop" \/ isLoading)
Positions(events, e) == {i \in 1..Len(events) : events[i] = e}
NotifyingOps == {"send", "resume", "continue", "markResolved"}

\* C21: the configuration a send submits holds the model, the tool set and
\* the subagent set selected in the session at that time, over the agent's own
\* configuration, the session's value winning on the same key.
C21_SendStep ==
    SendStep =>
        LET c == lastCall'.config.configurable
            own == activeConfig.configurable
        IN  /\ c.model_name = IF Falsy(runtimeConfig.model_name) THEN own.model_name
                              ELSE runtimeConfig.model_name
            /\ c.selected_tools = IF runtimeConfig.selected_tools.kind = "list"
                                  THEN runtimeConfig.selected_tools
                                  ELSE own.selected_tools
            /\ c.selected_subagents = IF runtimeConfig.selected_subagents.kind = "list"
                                      THEN runtimeConfig.selected_subagents
                                      ELSE own.selected_subagents
            /\ c.user_id = own.user_id
C21_SendCarriesSessionOptions == [][C21_SendStep]_vars

C33_ContinuePausesOnOneSide ==
    lastCall.op = "continue" =>
        /\ lastCall.turn = "none"
        /\ Positions(lastCall.events, "submit") = {1}
        /\ IF lastCall.arg = "true"
           THEN /\ lastCall.control.interruptAfter = <<"tools">>
                /\ lastCall.control.interruptBefore = <<>>
           ELSE /\ lastCall.control.interruptBefore = <<"tools">>
                /\ lastCall.control.interruptAfter = <<>>

\* C33 witness: a continueRun told of a task-type tool call is the last call,
\* made after a send, and pauses after the tool step
C33_Witness ==
    /\ lastCall.op = "continue"
    /\ lastCall.arg = "true"
    /\ lastCall.control.interruptAfter = <<"tools">>
    /\ Len(sends) >= 1

\* The step appends a Turn to the local Turn sequence
TurnStep == Len(sends') = Len(sends) + 1
\* The Turn the step appended
NewTurn == messages'[Len(messages')]
\* The text has a token that is not white space
NonBlank(content) == \E j \in 1..Len(content) : content[j] # " "

\* C32: a send appends one new human Turn to the end of the local Turn
\* sequence in the step of the call itself: without artifacts its content is
\* the plain text; with artifacts it is a part list, the text part first and
\* only when the text is not blank, then one image part per artifact in the
\* given order, and the Turn carries one {doc_id, storage_path} per artifact.
C32_SendAppendsOneHumanTurn ==
    [][TurnStep =>
        LET content == lastCall'.arg.content
            images == lastCall'.arg.images
            offset == IF NonBlank(content) THEN 1 ELSE 0
        IN  /\ messages' = Append(messages, NewTurn)
            /\ NewTurn.type = "human"
            /\ IF images = <<>>
               THEN /\ NewTurn.content = StringContent(content)
                    /\ NewTurn.uploaded_images = AbsentValue
               ELSE /\ NewTurn.content.kind = "blocks"
                    /\ Len(NewTurn.content.blocks) = offset + Len(images)
                    /\ NonBlank(content) =>
                          NewTurn.content.blocks[1] = [type |-> "text", text |-> content]
                    /\ \A i \in 1..Len(images) :
                          NewTurn.content.blocks[offset + i] =
                              [type |-> "image_url", url |-> images[i].storage_url]
                    /\ NewTurn.uploaded_images.kind = "list"
                    /\ NewTurn.uploaded_images.list =
                          [i \in 1..Len(images) |->
                              [doc_id |-> images[i].doc_id,
                               storage_path |-> images[i].storage_path]]]_vars

\* C32 witness: after two earlier Turns, a send with no text and the files 2
\* and 1 appended a Turn whose parts are the two images in that order
C32_Witness ==
    /\ Len(messages) = 3
    /\ lastCall.op = "send"
    /\ messages[3].type = "human"
    /\ messages[3].content.kind = "blocks"
    /\ messages[3].content.blocks =
          <<[type |-> "image_url", url |-> UploadedFile(2).storage_url],
            [type |-> "image_url", url |-> UploadedFile(1).storage_url]>>
    /\ isLoading

\* C37: the Turn a submission with files submits references every file, in
\* order, when every upload succeeded, and no file at all when one failed.
C37_AllOrNothing ==
    [][\A u \in uploads :
        (uploads' = uploads \ {u} /\ TurnStep) =>
            IF \A i \in 1..Len(u.files) : u.results[i] # NotUploaded
            THEN /\ NewTurn.uploaded_images.kind = "list"
                 /\ NewTurn.uploaded_images.list =
                       [i \in 1..Len(u.files) |->
                           [doc_id |-> UploadedFile(u.files[i]).doc_id,
                            storage_path |-> UploadedFile(u.files[i]).storage_path]]
            ELSE /\ NewTurn.uploaded_images = AbsentValue
                 /\ NewTurn.content.kind = "string"]_vars

\* C37 witness: one file of two had uploaded when the other failed, and the
\* Turn submitted has the text and no reference
C37_Witness ==
    /\ lastCall.op = "failedUpload"
    /\ lastCall.turn = "text"
    /\ Len(lastCall.arg.results) = 2
    /\ \E i \in 1..2 : lastCall.arg.results[i] # NotUploaded
    /\ Len(messages) >= 1
    /\ messages[Len(messages)].uploaded_images = AbsentValue
    /\ messages[Len(messages)].content = StringContent(<<"hi">>)
    /\ Len(sends) >= 1
    /\ sends[Len(sends)].images = <<>>

\* The creation of the thread of send s failed: the send is no longer being
\* created and has no thread
CreationFailed(s) == s \notin creating /\ sends[s].thread = NoThread
\* The references the flushes made so far have passed on
FlushedImages ==
    UNION {{patches[i].images[j] : j \in 1..Len(patches[i].images)} :
              i \in {n \in 1..Len(patches) : patches[n].origin = "flush"}}

\* C34: the references a send recorded as pending are flushed only into the
\* thread created for that send: when the creation of that thread failed, no
\* later assignment of a thread identifier flushes them into another thread.
C34_StaleReferencesNotFlushed ==
    \A s \in 1..Len(sends) :
        CreationFailed(s) =>
            \A j \in 1..Len(sends[s].images) : sends[s].images[j] \notin FlushedImages

\* C35: references are pending only while the session has no thread
\* identifier.
C35_PendingOnlyWithoutThread ==
    pendingImagesForThread # <<>> => threadId = NoThread

\* C36: while the upload started by a submission is in flight, the only sends
\* are those that end an upload: a second submit action issues none.
C36_NoSendWhileUploading ==
    [][(uploads # {} /\ Len(sends') = Len(sends) + 1) => uploads' # uploads]_vars

\* C23: when the upload of a submission fails, a submission with text still
\* submits a text-only Turn, with no artifact reference attached, pending,
\* scheduled or patched; a submission of artifacts alone raises an alert and
\* submits no Turn.
C23_FailedUploadStep ==
    FailedUploadStep =>
        /\ UNCHANGED <<timers, pendingImagesForThread, patches, metadata>>
        /\ EndedUpload.text =>
              /\ Len(sends') = Len(sends) + 1
              /\ SubSeq(sends', 1, Len(sends)) = sends
              /\ sends'[Len(sends')].text
              /\ sends'[Len(sends')].images = <<>>
              /\ lastCall'.turn = "text"
        /\ ~EndedUpload.text =>
              /\ sends' = sends
              /\ alerts' = alerts + 1
              /\ Positions(lastCall'.events, "submit") = {}
C23_FailedUploadSendsTextOnly == [][C23_FailedUploadStep]_vars

\* C23 witness: two uploads failed, the first of a submission without text
\* and the last of one with text, whose text-only Turn is the only submit
C23_Witness ==
    /\ alerts = 2
    /\ lastCall.op = "failedUpload"
    /\ lastCall.text
    /\ Len(sends) = 1
    /\ sends[1].images = <<>>
    /\ timers = {}
    /\ patches = <<>>
    /\ pendingImagesForThread = <<>>

\* C24 as claimed: an alert is raised only when an upload fails and the
\* submission has no text.
C24_AlertStepAsClaimed ==
    alerts' # alerts => (FailedUploadStep /\ ~EndedUpload.text)
C24_AlertOnlyWithoutText == [][C24_AlertStepAsClaimed]_vars

\* C24 amended: an alert is raised exactly when an upload fails, with or
\* without text in the submission; no other step, a failing patch included,
\* raises one.
C24_AlertStep ==
    /\ alerts' # alerts => FailedUploadStep
    /\ FailedUploadStep => alerts' = alerts + 1
C24_AlertExactlyOnFailedUpload == [][C24_AlertStep]_vars

\* C24 witness: one alert, raised by the failed upload of a submission with
\* text, after a patch failed without one
C24_Witness ==
    /\ alerts = 1
    /\ lastCall.op = "failedUpload"
    /\ lastCall.text
    /\ \E i \in 1..Len(patches) : patches[i].pc \in PatchFailures

\* C25: stop() leaves every scheduled patch, every patch in progress and every
\* upload in progress as it was, and no send with a known thread is ever
\* without its timeout or its patch call.
C25_StopStep ==
    StopStep =>
        UNCHANGED <<timers, patches, uploads, pendingImagesForThread, metadata, creating>>
C25_PatchKept ==
    \A s \in ImageSends :
        sends[s].seen # NoThread =>
            \/ \E tm \in timers : tm.send = s
            \/ \E i \in 1..Len(patches) :
                  patches[i].origin = "timer" /\ patches[i].images = sends[s].images
C25_StopCancelsOnlyTheRun == [][C25_StopStep]_vars /\ []C25_PatchKept

\* C25 witness: stop() was the last call and ended the run; the patch of the
\* send is written and an upload is still in progress
C25_Witness ==
    /\ lastCall.op = "stop"
    /\ ~isLoading
    /\ uploads # {}
    /\ \E s \in ImageSends : \E i \in 1..Len(patches) :
          /\ patches[i].origin = "timer"
          /\ patches[i].images = sends[s].images
          /\ patches[i].pc = "ok"

\* C26: a send with artifacts made while a thread identifier is known adds
\* nothing to the pending set and schedules one patch, for that thread
\* identifier, which is issued in a later step.
C26_SendStep ==
    (/\ Len(sends') = Len(sends) + 1
     /\ sends'[Len(sends')].images # <<>>
     /\ threadId # NoThread)
    => /\ pendingImagesForThread' = pendingImagesForThread
       /\ patches' = patches
       /\ \E tm \in timers' \ timers :
             /\ timers' = timers \cup {tm}
             /\ tm.thread = threadId
             /\ tm.images = sends'[Len(sends')].images
C26_KnownThreadSendSchedulesOnePatch == [][C26_SendStep]_vars
====
